---- MODULE Spec2Model ----
(***************************************************************************)
(* A model of the response resolver of pkg/engine/resolve/resolve.go.      *)
(*                                                                         *)
(* Byte slices are sequences of tokens (strings): a punctuation byte, a    *)
(* literal, a number, or the content of a JSON string between its quotes.  *)
(* A buffer is such a sequence; WriteBytes appends.  JSON is read from the *)
(* tokens the way jsonparser reads it from bytes.                          *)
(***************************************************************************)
EXTENDS Integers, Sequences, FiniteSets, TLC

(***************************************************************************)
(* State.                                                                  *)
(*   Single-flight (Resolver fields and the locals of resolveSingleFetch)  *)
(***************************************************************************)
VARIABLES
    EnableSingleFlightLoader,  \* Resolver.EnableSingleFlightLoader
    inflightFetches,           \* Resolver.inflightFetches: fetchID -> entry, under inflightFetchMu
    inflightFetchPool,         \* Resolver.inflightFetchPool: the entries free for reuse
    inflight,                  \* the inflightFetch entries: waitLoad, waitFree, err, bufPair
    freeing,                   \* entries whose leader started the goroutine of lines 1177-1180
    pc,                        \* where each caller of resolveSingleFetch stands
    fetch,                     \* each caller's *SingleFetch and prepared input
    buf,                       \* each caller's output BufPair
    ret,                       \* the error each caller returned
    entryOf,                   \* each caller's local variable inflight
    loaded,                    \* what DataSource.Load handed to each caller that called it
    loadCalls,                 \* per (DataSourceIdentifier, input): the calls of DataSource.Load
    registeredBy,              \* per entry: the caller that registered it last
    leaderOf,                  \* for a waiter: the caller that registered the entry it found
    foundInflight,             \* per caller: a leader of its key stood between insert and delete at its lookup
    overlapping,               \* every call so far started before any call returned
    hookCalls                  \* per caller: the calls of its after-fetch hook, in order

sfVars == <<EnableSingleFlightLoader, inflightFetches, inflightFetchPool, inflight, freeing,
            pc, fetch, buf, ret, entryOf, loaded, loadCalls, registeredBy, leaderOf,
            foundInflight, overlapping, hookCalls>>


(*   A request: ResolveGraphQLResponse and the tree walker                 *)
VARIABLES
    response,                  \* GraphQLResponse.Data: the plan tree
    requestData,               \* the data argument
    context,                   \* the *Context
    writer,                    \* the io.Writer: what was written, the writes so far, those that fail
    returned,                  \* the error the call returned ("none" while it has not)
    completionOrder,           \* the order in which the goroutines of an asynchronous array finish
    rangeOrder                 \* the order in which range visits the buffers of a result set

resolveVars == <<response, requestData, context, writer, returned, completionOrder,
                 rangeOrder>>

(*   resolveArrayAsynchronous, goroutine by goroutine                      *)
VARIABLES
    asyncArray,                \* the *Array
    asyncItems,                \* *arrayItems
    asyncBuf,                  \* arrayBuf
    bufSlice,                  \* *bufSlice: one BufPair per item
    errCh,                     \* the one-slot error channel
    wg,                        \* the WaitGroup's counter
    task,                      \* each item goroutine: "none", "running", "resolved", "done"
    asyncErr,                  \* the error resolveArrayAsynchronous returned ("none" while running)
    asyncStage                 \* "start", "spawned", "joined", "returned"

asyncVars == <<asyncArray, asyncItems, asyncBuf, bufSlice, errCh, wg, task, asyncErr, asyncStage>>

(*   writeGraphqlResponse                                                  *)
VARIABLES
    envelopeBuf,               \* buf
    ignoreData                 \* ignoreData

envelopeVars == <<envelopeBuf, ignoreData>>

(*   The drivers: ResolveGraphQLStreamingResponse, ResolveGraphQLSubscription, *)
(*   and the calls made one after the other on one Context                    *)
VARIABLES
    stage,                     \* where the driver stands: "idle", "loop", "receiving", "returned"
    call,                      \* the function called last: "none", "streaming", "response", "subscription"
    calls,                     \* the calls made so far
    streamBuf,                 \* buf of ResolveGraphQLStreamingResponse: the frame not yet written
    flushes,                   \* the length of the writer's output at each Flush
    done,                      \* ctx.Context.Done() has fired
    bytesBufferPool,           \* pool.BytesBuffer: the Get and Put calls made for the Context
    startContext,              \* the Context as the call found it
    used,                      \* a call resolved with the Context since the last Free
    freed,                     \* Free was the last thing done to the Context
    rendered,                  \* the queue positions handed to ResolveGraphQLResponsePatch, in order
    emitted,                   \* those of them whose patch was written into buf
    atDone                     \* the writer, the flushes and buf when the driver saw Done

streamVars == <<stage, call, calls, streamBuf, flushes, done, bytesBufferPool, startContext,
                used, freed, rendered, emitted, atDone>>

VARIABLES
    next,                      \* the channel next: the frames the source has sent and not yet received
    nextClosed,                \* the source has closed next
    toSend,                    \* the frames the source has still to send
    resolverDone,              \* r.ctx.Done() has fired
    received,                  \* the frames received from next, in order
    atCancel,                  \* the writer and the flushes at the first cancellation
    started                    \* what Source.Start returned, "none" before it is called

subscriptionVars == <<next, nextClosed, toSend, resolverDone, received, atCancel, started>>

VARIABLES
    args,                      \* the arguments of a call of one function, chosen at the start
    result,                    \* what the call returned and left in its arguments
    planVariables,             \* a Variables list, as AddVariable has built it
    patchContext               \* a *Context, as addPatch, popNextPatch and Free have left it

callVars == <<args, result, planVariables, patchContext>>

(*   resolveFetch: the preparation, the child goroutines, the join        *)
VARIABLES
    fetchPlan,                 \* the Fetch: a SingleFetch or a ParallelFetch
    fetchData,                 \* the data argument
    fetchCtx,                  \* the *Context: Variables, the request's Header, the hooks, usedBuffers
    resultSet,                 \* set.buffers: BufferId -> BufPair
    preparedInputs,            \* the prepared input of each child
    fetchWg,                   \* the WaitGroup's counter
    childPc,                   \* each child's position in resolveSingleFetch
    appending,                 \* per child: inside append(c.usedBuffers, buf), between its read and its write
    lease,                     \* per child: the length of c.usedBuffers that append read
    childErr,                  \* per child: what resolveSingleFetch returned
    fetchStage,                \* "idle", "prepared", "waiting", "returned", "freed"
    fetchErr,                  \* what resolveFetch returned ("none" while it has not)
    loads,                     \* the calls of DataSource.Load: the child and its input, in order
    hookLog,                   \* the hook calls: the child, the hook and the singleFlight flag, in order
    bufPairPool                \* Resolver.bufPairPool: the BufPairs got from it and not put back

fetchVars == <<fetchPlan, fetchData, fetchCtx, resultSet, preparedInputs, fetchWg, childPc, appending,
               lease, childErr, fetchStage, fetchErr, loads, hookLog, bufPairPool>>

unitVars == <<callVars, fetchVars>>

driverVars == <<streamVars, subscriptionVars, unitVars>>

vars == <<sfVars, resolveVars, asyncVars, envelopeVars, driverVars>>

(***************************************************************************)
(* Byte literals (resolve.go 29-50).                                       *)
(***************************************************************************)
lBrace == "{"
rBrace == "}"
lBrack == "["
rBrack == "]"
comma == ","
colon == ":"
quote == "\""
null == "null"
literalData == "data"
literalErrors == "errors"
literalMessage == "message"
literalLocations == "locations"
literalLine == "line"
literalColumn == "column"
literalPath == "path"
literalExtensions == "extensions"
quotedComma == <<quote, comma, quote>>
unableToResolveMsg == "unable to resolve"
emptyArray == <<lBrack, rBrack>>
literalOp == "op"
literalValue == "value"
entitiesPath == <<"_entities", "[0]">>

(* error values *)
nilErr == "nil"
errNonNullableFieldValueIsNull == "errNonNullableFieldValueIsNull"
errTypeNameSkipped == "errTypeNameSkipped"
errLoad == "errLoad"
errWrite == "errWrite"
errInvalidContext == "Context must be resetted using Free() before re-using it"
ErrUnableToResolve == "unable to resolve operation"
errStart == "errStart"
errRender == "errRender"

(***************************************************************************)
(* jsonparser, on tokens.  A value starts with "{", "[", a quote, a        *)
(* literal or a number token; anything else is no JSON value.              *)
(***************************************************************************)
NumberTokens == {"0", "1", "2", "3", "4", "5", "6", "7", "8", "9"}
BooleanTokens == {"true", "false"}
Punctuation == {lBrace, rBrace, lBrack, rBrack, comma, colon, quote}

(* unicode.IsLetter(rune(data[0])): every other token of the model is a word *)
IsLetter(tok) == tok \notin NumberTokens \cup Punctuation

(* a local value computed once: With(e, LAMBDA x : body) is body with x standing for e *)
With(e, Body(_)) == CHOOSE r \in {Body(x) : x \in {e}} : TRUE

(* the index just behind the least index of S, 0 when S is empty *)
Behind(S) == IF S = {} THEN 0 ELSE (CHOOSE j \in S : \A k \in S : j <= k) + 1

(* the index just behind the bracket that closes the one at b[i]; 0 when there is none *)
SkipNested(b, i) ==
    LET opened(j) == Cardinality({k \in i..j : b[k] \in {lBrace, lBrack}})
        closed(j) == Cardinality({k \in i..j : b[k] \in {rBrace, rBrack}})
    IN Behind({j \in i..Len(b) : opened(j) = closed(j)})

(* the index just behind the quote that closes a string whose content starts at b[i] *)
SkipString(b, i) == Behind({j \in i..Len(b) : b[j] = quote})

ValueEnd(b, i) ==
    IF i > Len(b) THEN 0
    ELSE IF b[i] \in {lBrace, lBrack} THEN SkipNested(b, i)
    ELSE IF b[i] = quote THEN SkipString(b, i + 1)
    ELSE IF b[i] \in NumberTokens \cup BooleanTokens \cup {null} THEN i + 1
    ELSE 0

Slice(b, from, to) == [j \in 1..(to - from) |-> b[from + j - 1]]

(* jsonparser.ValueType of the value that starts at b[i] *)
TypeAt(b, i) ==
    IF ValueEnd(b, i) = 0 THEN "Unknown"
    ELSE IF b[i] = lBrace THEN "Object"
    ELSE IF b[i] = lBrack THEN "Array"
    ELSE IF b[i] = quote THEN "String"
    ELSE IF b[i] = null THEN "Null"
    ELSE IF b[i] \in BooleanTokens THEN "Boolean"
    ELSE "Number"

(* the bytes jsonparser hands out for the value at b[i]: a string loses its quotes *)
ValueAt(b, i) ==
    IF TypeAt(b, i) = "String" THEN Slice(b, i + 1, ValueEnd(b, i) - 1)
    ELSE Slice(b, i, ValueEnd(b, i))

NotFound == [value |-> <<>>, type |-> "NotExist", err |-> TRUE]

(* the start of the value of member key of the object whose members start at b[i]; 0 if none *)
RECURSIVE FindKey(_, _, _)
FindKey(b, i, key) ==
    IF i + 3 > Len(b) \/ b[i] # quote THEN 0
    ELSE With(SkipString(b, i + 1), LAMBDA keyEnd :
         With(ValueEnd(b, keyEnd + 1), LAMBDA valEnd :
            IF keyEnd = 0 \/ keyEnd > Len(b) \/ b[keyEnd] # colon \/ valEnd = 0 THEN 0
            ELSE IF Slice(b, i + 1, keyEnd - 1) = <<key>> THEN keyEnd + 1
            ELSE IF valEnd <= Len(b) /\ b[valEnd] = comma THEN FindKey(b, valEnd + 1, key)
            ELSE 0))

(* the start of element n (from 0) of the array whose elements start at b[i]; 0 if none *)
RECURSIVE FindIndex(_, _, _)
FindIndex(b, i, n) ==
    With(ValueEnd(b, i), LAMBDA valEnd :
        IF valEnd = 0 THEN 0
        ELSE IF n = 0 THEN i
        ELSE IF valEnd <= Len(b) /\ b[valEnd] = comma THEN FindIndex(b, valEnd + 1, n - 1)
        ELSE 0)

(* jsonparser.Get(data, keys...) : value, type, error *)
RECURSIVE GetAt(_, _, _)
GetAt(b, i, keys) ==
    IF keys = <<>>
    THEN IF TypeAt(b, i) = "Unknown" THEN NotFound
         ELSE [value |-> ValueAt(b, i), type |-> TypeAt(b, i), err |-> FALSE]
    ELSE With(IF TypeAt(b, i) = "Object" THEN FindKey(b, i + 1, Head(keys))
              ELSE IF TypeAt(b, i) = "Array" /\ Head(keys) = "[0]" THEN FindIndex(b, i + 1, 0)
              ELSE 0,
              LAMBDA at : IF at = 0 THEN NotFound ELSE GetAt(b, at, Tail(keys)))

Get(data, keys) == GetAt(data, 1, keys)

(* jsonparser.ArrayEach(data, cb, keys...): the values handed to the callback *)
RECURSIVE ElementsFrom(_, _)
ElementsFrom(b, i) ==
    With(ValueEnd(b, i), LAMBDA valEnd :
        IF valEnd = 0 THEN <<>>
        ELSE <<ValueAt(b, i)>> \o
             (IF valEnd <= Len(b) /\ b[valEnd] = comma THEN ElementsFrom(b, valEnd + 1)
              ELSE <<>>))

(* the start of the value at keys below the value that starts at b[i]; 0 if none *)
RECURSIVE Seek(_, _, _)
Seek(b, i, keys) ==
    IF keys = <<>> THEN i
    ELSE IF TypeAt(b, i) # "Object" THEN 0
    ELSE With(FindKey(b, i + 1, Head(keys)),
              LAMBDA nxt : IF nxt = 0 THEN 0 ELSE Seek(b, nxt, Tail(keys)))

ArrayEach(data, keys) ==
    With(Seek(data, 1, keys), LAMBDA at :
        IF at = 0 \/ at > Len(data) \/ data[at] # lBrack THEN <<>>
        ELSE ElementsFrom(data, at + 1))

(* jsonparser.ObjectEach / EachKey: the top-level member at key, if the data is an object *)
Member(data, key) == Get(data, <<key>>)

(***************************************************************************)
(* BufPair (resolve.go 1673-1770).  A nil byte slice is the value Nil.     *)
(***************************************************************************)
Nil == <<"<nil>">>
EmptyBufPair == [Data |-> <<>>, Errors |-> <<>>]

HasData(b) == Len(b.Data) # 0
HasErrors(b) == Len(b.Errors) # 0

WriteErr(b, message, locations, path, extensions) ==
    [b EXCEPT !.Errors =
        @ \o (IF HasErrors(b) THEN <<comma>> ELSE <<>>)
          \o <<lBrace, quote, literalMessage, quote, colon, quote>> \o message \o <<quote>>
          \o (IF locations # Nil
              THEN <<comma, quote, literalLocations, quote, colon>> \o locations ELSE <<>>)
          \o (IF path # Nil
              THEN <<comma, quote, literalPath, quote, colon>> \o path ELSE <<>>)
          \o (IF extensions # Nil
              THEN <<comma, quote, literalExtensions, quote, colon>> \o extensions ELSE <<>>)
          \o <<rBrace>>]

(* MergeBufPairData writing the comma only when to holds data already *)
MergeBufPairDataAfterData(from, to, prefixDataWithComma) ==
    IF ~HasData(from) THEN [from |-> from, to |-> to]
    ELSE [from |-> [from EXCEPT !.Data = <<>>],
          to |-> [to EXCEPT !.Data =
                    @ \o (IF prefixDataWithComma /\ HasData(to) THEN <<comma>> ELSE <<>>)
                      \o from.Data]]

(* the merges change both pairs: they return [from, to] *)
MergeBufPairData(from, to, prefixDataWithComma) ==
    IF ~HasData(from) THEN [from |-> from, to |-> to]
    ELSE [from |-> [from EXCEPT !.Data = <<>>],
          to |-> [to EXCEPT !.Data =
                    @ \o (IF prefixDataWithComma THEN <<comma>> ELSE <<>>) \o from.Data]]

MergeBufPairErrors(from, to) ==
    IF ~HasErrors(from) THEN [from |-> from, to |-> to]
    ELSE [from |-> [from EXCEPT !.Errors = <<>>],
          to |-> [to EXCEPT !.Errors =
                    @ \o (IF HasErrors(to) THEN <<comma>> ELSE <<>>) \o from.Errors]]

MergeBufPairs(from, to, prefixDataWithComma) ==
    With(MergeBufPairData(from, to, prefixDataWithComma),
         LAMBDA d : MergeBufPairErrors(d.from, d.to))

(***************************************************************************)
(* extractResponse (resolve.go 406-448)                                    *)
(***************************************************************************)
(* ProcessResponseConfig values in use *)
graphqlConfig == [ExtractGraphqlResponse |-> TRUE, ExtractFederationEntities |-> FALSE]
rawConfig == [ExtractGraphqlResponse |-> FALSE, ExtractFederationEntities |-> FALSE]

OptionalMember(value, key) ==
    With(Member(value, key), LAMBDA got : IF got.err THEN Nil ELSE got.value)

RECURSIVE WriteResponseErrors(_, _, _)
WriteResponseErrors(b, values, i) ==
    IF i > Len(values) THEN b
    ELSE With(OptionalMember(values[i], literalMessage), LAMBDA message :
            WriteResponseErrors(
                IF message # Nil
                THEN WriteErr(b, message,
                              OptionalMember(values[i], literalLocations),
                              OptionalMember(values[i], literalPath),
                              OptionalMember(values[i], literalExtensions))
                ELSE b,
                values, i + 1))

extractResponse(responseData, bufPair, cfg) ==
    IF Len(responseData) = 0 THEN bufPair
    ELSE IF ~cfg.ExtractGraphqlResponse
    THEN [bufPair EXCEPT !.Data = @ \o responseData]
    ELSE With(Member(responseData, literalErrors), LAMBDA errs :
         With(Member(responseData, literalData), LAMBDA data :
         With(IF errs.err THEN bufPair
              ELSE WriteResponseErrors(bufPair, ArrayEach(errs.value, <<>>), 1),
              LAMBDA withErrors :
            IF data.err THEN withErrors
            ELSE IF cfg.ExtractFederationEntities
            THEN [withErrors EXCEPT !.Data = @ \o Get(data.value, entitiesPath).value]
            ELSE [withErrors EXCEPT !.Data = @ \o data.value])))

(***************************************************************************)
(* Context (resolve.go 119-264)                                            *)
(***************************************************************************)
NoPosition == [Line |-> 0, Column |-> 0]

NewContext ==
    [Variables |-> <<>>, Header |-> [n \in {} |-> <<>>], pathElements |-> <<>>,
     patches |-> <<>>, usedBuffers |-> 0, currentPatch |-> -1, maxPatch |-> -1,
     pathPrefix |-> <<>>, position |-> NoPosition]

(* Clone: copies of everything but the leases, which start empty *)
Clone(c) == [c EXCEPT !.usedBuffers = 0]

setPosition(c, position) == [c EXCEPT !.position = position]
addPathElement(c, elem) == [c EXCEPT !.pathElements = Append(@, elem)]
addIntegerPathElement(c, elem) == addPathElement(c, ToString(elem))
(* removeLastPathElement leaving the element on the stack *)
removeLastPathElementKept(c) == c

removeLastPathElement(c) == [c EXCEPT !.pathElements = SubSeq(@, 1, Len(@) - 1)]

RECURSIVE Join(_, _)
Join(parts, sep) ==
    IF parts = <<>> THEN <<>>
    ELSE IF Len(parts) = 1 THEN <<parts[1]>>
    ELSE <<parts[1]>> \o sep \o Join(Tail(parts), sep)

RECURSIVE PathTail(_, _)
PathTail(elems, i) ==
    IF i > Len(elems) THEN <<>>
    ELSE (IF i = 1 /\ elems[1] = literalData THEN <<>> ELSE <<"/", elems[i]>>)
         \o PathTail(elems, i + 1)

(* Context.path: leases a buffer; returns the context and the bytes *)
path(c) ==
    [ctx |-> [c EXCEPT !.usedBuffers = @ + 1],
     bytes |-> (IF Len(c.pathPrefix) # 0 THEN c.pathPrefix ELSE <<"/", literalData>>)
               \o PathTail(c.pathElements, 1)]

addPatch(c, index, pathBytes, extraPath, data) ==
    [c EXCEPT !.patches = Append(@, [path |-> pathBytes, extraPath |-> extraPath,
                                      data |-> data, index |-> index]),
              !.maxPatch = @ + 1]

(* preparePatch with the path of the parent, without the element pushed last *)
preparePatchParentPath(c, patchIndex, extraPath, data) ==
    With(path([c EXCEPT !.usedBuffers = @ + 1, !.pathElements = SubSeq(@, 1, Len(@) - 1)]),
         LAMBDA p : addPatch([p.ctx EXCEPT !.pathElements = c.pathElements],
                             patchIndex, p.bytes, extraPath, data))

(* Resolver.preparePatch (888-894) *)
preparePatch(c, patchIndex, extraPath, data) ==
    With(path([c EXCEPT !.usedBuffers = @ + 1]),
         LAMBDA p : addPatch(p.ctx, patchIndex, p.bytes, extraPath, data))

(***************************************************************************)
(* Leaves (resolve.go 660-668, 813-898)                                    *)
(***************************************************************************)
Write(b, bytes) == [b EXCEPT !.Data = @ \o bytes]
ResetData(b) == [b EXCEPT !.Data = <<>>]
resolveNull(b) == Write(b, <<null>>)
(* resolveEmptyArray writing null *)
resolveEmptyArrayAsNull(b) == Write(b, <<null>>)
resolveEmptyArray(b) == Write(b, <<lBrack, rBrack>>)
resolveEmptyObject(b) == Write(b, <<lBrace, rBrace>>)

Result(c, b, e) == [ctx |-> c, buf |-> b, err |-> e]

(* resolveInteger, resolveFloat (want = Number) and resolveBoolean (want = Boolean) *)
resolveScalar(node, want, data, b) ==
    With(Get(data, node.Path), LAMBDA got :
        IF got.err \/ got.type # want
        THEN IF ~node.Nullable THEN [buf |-> b, err |-> errNonNullableFieldValueIsNull]
             ELSE [buf |-> resolveNull(b), err |-> nilErr]
        ELSE [buf |-> Write(b, got.value), err |-> nilErr])

resolveInteger(node, data, b) == resolveScalar(node, "Number", data, b)
resolveFloat(node, data, b) == resolveScalar(node, "Number", data, b)
resolveBoolean(node, data, b) == resolveScalar(node, "Boolean", data, b)

resolveString(str, data, b) ==
    LET quoted(value) == [buf |-> Write(b, <<quote>> \o value \o <<quote>>), err |-> nilErr]
        absent == IF ~str.Nullable THEN [buf |-> b, err |-> errNonNullableFieldValueIsNull]
                  ELSE [buf |-> resolveNull(b), err |-> nilErr]
    IN IF Len(data) # 0 /\ str.Path = <<>>
       THEN IF Get(data, <<>>).type = "String" \/ IsLetter(data[1]) THEN quoted(data)
            ELSE absent
       ELSE With(Get(data, str.Path), LAMBDA got :
                IF got.err \/ got.type # "String" THEN absent ELSE quoted(got.value))

(* Resolver.addResolveError (900-934) *)
addResolveError(c, objectBuf) ==
    LET locations == <<lBrack, lBrace, quote, literalLine, quote, colon, ToString(c.position.Line),
                       comma, quote, literalColumn, quote, colon, ToString(c.position.Column),
                       rBrace, rBrack>>
        pathBytes == IF Len(c.pathElements) > 0
                     THEN <<lBrack, quote>> \o Join(c.pathElements, quotedComma) \o <<quote, rBrack>>
                     ELSE Nil
    IN WriteErr(objectBuf, <<unableToResolveMsg>>, locations, pathBytes, Nil)

(***************************************************************************)
(* The tree walker (resolve.go 368-397, 670-811, 936-1041).                *)
(* A plan node is a record with a kind; resolveNode returns the context,   *)
(* the output BufPair and the error.                                       *)
(***************************************************************************)
NoStream == [Enabled |-> FALSE, InitialBatchSize |-> 0, PatchIndex |-> 0]
NoDefer == [Enabled |-> FALSE, PatchIndex |-> 0]

RECURSIVE resolveNode(_, _, _, _)
RECURSIVE resolveObject(_, _, _, _)
RECURSIVE ObjectFields(_, _, _, _, _, _, _, _)
RECURSIVE resolveArray(_, _, _, _)
RECURSIVE resolveArraySynchronous(_, _, _, _)
RECURSIVE ArrayItems(_, _, _, _, _, _, _, _)
RECURSIVE resolveArrayAsynchronous(_, _, _, _)
RECURSIVE resolveFetch(_, _, _, _)

(* lines 1003-1025: the field's value returned err *)
ObjectFieldFailed(c, object, field, objectBuf, fieldBuf, err) ==
    IF err = errTypeNameSkipped
    THEN Result(c, resolveEmptyObject(ResetData(objectBuf)), nilErr)
    ELSE IF err = errNonNullableFieldValueIsNull
    THEN With(MergeBufPairErrors(fieldBuf, ResetData(objectBuf)).to, LAMBDA merged :
            IF object.Nullable THEN Result(c, resolveNull(merged), nilErr)
            ELSE IF field.Value.kind # "Object"
                 THEN Result(c, addResolveError(c, merged), err)
            ELSE Result(c, merged, err))
    ELSE Result(c, objectBuf, err)

(* lines 1028-1040: after the loop *)
ObjectEnd(c, object, objectBuf, first, typeNameSkip) ==
    IF first
    THEN IF typeNameSkip THEN Result(c, objectBuf, errTypeNameSkipped)
         ELSE IF ~object.Nullable
              THEN Result(c, addResolveError(c, objectBuf), errNonNullableFieldValueIsNull)
         ELSE Result(c, resolveNull(objectBuf), nilErr)
    ELSE Result(c, Write(objectBuf, <<rBrace>>), nilErr)

(* lines 989-998 without the comma of line 993 *)
WriteFieldNameNoComma(objectBuf, field, first) ==
    Write(objectBuf, (IF first THEN <<lBrace>> ELSE <<>>) \o <<quote, field.Name, quote, colon>>)

(* lines 989-998: the brace or the comma, and the key *)
WriteFieldName(objectBuf, field, first) ==
    Write(objectBuf, <<IF first THEN lBrace ELSE comma, quote, field.Name, quote, colon>>)

(* lines 981-987 *)
TypeNameMismatch(field, fieldData) ==
    /\ field.OnTypeName # Nil
    /\ Get(fieldData, <<"__typename">>).value # field.OnTypeName

(* lines 971-979: set is a function from buffer ids to BufPairs, or NoSet *)
NoSet == <<>>
FieldData(field, data, set) ==
    IF set # NoSet /\ field.HasBuffer
    THEN IF field.BufferID \in DOMAIN set THEN set[field.BufferID].Data ELSE <<>>
    ELSE data

(* lines 969-1027: the loop over object.Fields, from field i on *)
ObjectFields(c, object, data, set, objectBuf, fieldBuf, i, flags) ==
    IF i > Len(object.Fields)
    THEN ObjectEnd(c, object, objectBuf, flags.first, flags.typeNameSkip)
    ELSE With(object.Fields[i], LAMBDA field :
         With(FieldData(field, data, set), LAMBDA fieldData :
            IF TypeNameMismatch(field, fieldData)
            THEN ObjectFields(c, object, data, set, objectBuf, fieldBuf, i + 1,
                              [flags EXCEPT !.typeNameSkip = TRUE])
            ELSE With(WriteFieldName(objectBuf, field, flags.first), LAMBDA named :
                 With(resolveNode(setPosition(addPathElement(c, field.Name), field.Position),
                                  field.Value, fieldData, fieldBuf), LAMBDA r :
                 With(removeLastPathElement(r.ctx), LAMBDA popped :
                    IF r.err # nilErr
                    THEN ObjectFieldFailed(popped, object, field, named, r.buf, r.err)
                    ELSE With(MergeBufPairs(r.buf, named, FALSE), LAMBDA m :
                            ObjectFields(popped, object, data, set, m.to, m.from, i + 1,
                                         [flags EXCEPT !.first = FALSE])))))))

(* range over set.buffers, a map: the runtime chooses the order, here rangeOrder when *)
(* it lists the keys of the map                                                       *)
MapRange(buffers) ==
    IF Len(rangeOrder) = Cardinality(DOMAIN buffers)
       /\ {rangeOrder[i] : i \in DOMAIN rangeOrder} = DOMAIN buffers
    THEN rangeOrder
    ELSE CHOOSE order \in [1..Cardinality(DOMAIN buffers) -> DOMAIN buffers] :
            {order[i] : i \in DOMAIN order} = DOMAIN buffers

(* lines 959-961: the errors of every buffer of the set go to objectBuf; [set, objectBuf] *)
RECURSIVE MergeSetErrors(_, _, _, _)
MergeSetErrors(buffers, order, i, objectBuf) ==
    IF i > Len(order) THEN [set |-> buffers, objectBuf |-> objectBuf]
    ELSE With(MergeBufPairErrors(buffers[order[i]], objectBuf), LAMBDA m :
            MergeSetErrors([buffers EXCEPT ![order[i]] = m.from], order, i + 1, m.to))

(* lines 950-962: the fetch of the object, and the fields resolved on its result set *)
ObjectFetched(c, object, data, objectBuf) ==
    With(resolveFetch(c, object.Fetch, data, [id \in {} |-> EmptyBufPair]), LAMBDA f :
        IF f.err # nilErr THEN Result(c, objectBuf, f.err)
        ELSE With(MergeSetErrors(f.buffers, MapRange(f.buffers), 1, objectBuf), LAMBDA m :
                ObjectFields(c, object, data, m.set, m.objectBuf, EmptyBufPair, 1,
                             [first |-> TRUE, typeNameSkip |-> FALSE])))

resolveObject(c, object, data, objectBuf) ==
    With(IF Len(object.Path) # 0 THEN Get(data, object.Path).value ELSE data, LAMBDA at :
        IF Len(object.Path) # 0 /\ Len(at) = 0
        THEN IF object.Nullable THEN Result(c, resolveNull(objectBuf), nilErr)
             ELSE Result(c, addResolveError(c, objectBuf), errNonNullableFieldValueIsNull)
        ELSE IF object.Fetch.kind # "none" THEN ObjectFetched(c, object, at, objectBuf)
        ELSE ObjectFields(c, object, at, NoSet, objectBuf, EmptyBufPair, 1,
                          [first |-> TRUE, typeNameSkip |-> FALSE]))

(* lines 725-736 without arrayBuf.Data.Reset() *)
ArrayItemFailedKeepsData(c, array, arrayBuf, err) ==
    IF err = errNonNullableFieldValueIsNull /\ array.Nullable
    THEN Result(c, resolveNull(arrayBuf), nilErr)
    ELSE Result(c, arrayBuf, err)

(* lines 725-736: the item returned err *)
ArrayItemFailed(c, array, arrayBuf, err) ==
    IF err = errNonNullableFieldValueIsNull /\ array.Nullable
    THEN Result(c, resolveNull(ResetData(arrayBuf)), nilErr)
    ELSE Result(c, arrayBuf, err)

(* lines 737-741 and 802-806: merge one item, [arrayBuf, itemBuf, hasPreviousItem, dataWritten] *)
MergeItem(itemBuf, arrayBuf, hasPreviousItem, dataWritten) ==
    With(dataWritten + Len(itemBuf.Data), LAMBDA written :
    With(MergeBufPairs(itemBuf, arrayBuf, hasPreviousItem), LAMBDA m :
        [arrayBuf |-> m.to, itemBuf |-> m.from, dataWritten |-> written,
         hasPreviousItem |-> (hasPreviousItem \/ written # 0)]))

(* lines 711-742: the loop over the items, from item i (counted from 0) on *)
ArrayItems(c, array, arrayItems, arrayBuf, itemBuf, i, hasPreviousItem, dataWritten) ==
    IF i > Len(arrayItems) - 1
    THEN Result(c, Write(arrayBuf, <<rBrack>>), nilErr)
    ELSE IF array.Stream.Enabled /\ i > array.Stream.InitialBatchSize - 1
    THEN ArrayItems(removeLastPathElement(
                        preparePatch(addIntegerPathElement(c, i), array.Stream.PatchIndex,
                                     Nil, arrayItems[i + 1])),
                    array, arrayItems, arrayBuf, itemBuf, i + 1, hasPreviousItem, dataWritten)
    ELSE With(resolveNode(addIntegerPathElement(c, i), array.Item, arrayItems[i + 1], itemBuf),
              LAMBDA r :
         With(removeLastPathElement(r.ctx), LAMBDA popped :
            IF r.err = errTypeNameSkipped
            THEN ArrayItems(popped, array, arrayItems, arrayBuf, r.buf, i + 1,
                            hasPreviousItem, dataWritten)
            ELSE IF r.err # nilErr THEN ArrayItemFailed(popped, array, arrayBuf, r.err)
            ELSE With(MergeItem(r.buf, arrayBuf, hasPreviousItem, dataWritten), LAMBDA m :
                    ArrayItems(popped, array, arrayItems, m.arrayBuf, m.itemBuf, i + 1,
                               m.hasPreviousItem, m.dataWritten))))

resolveArraySynchronous(c, array, arrayItems, arrayBuf) ==
    ArrayItems(c, array, arrayItems, Write(arrayBuf, <<lBrack>>), EmptyBufPair, 0, FALSE, 0)

(* lines 763-779: what the goroutine of item i (counted from 0) leaves in its itemBuf *)
ItemTask(c, array, arrayItems, i) ==
    resolveNode(addPathElement(Clone(c), ToString(i)), array.Item, arrayItems[i + 1],
                EmptyBufPair)

(* lines 770-775 and 783-786: what is received from errCh, the k-th goroutine to finish *)
(* sends first if its error is one to report                                           *)
RECURSIVE ReportedError(_, _, _)
ReportedError(errs, order, k) ==
    IF k > Len(order) THEN nilErr
    ELSE IF order[k] \in DOMAIN errs /\ errs[order[k]] \notin {nilErr, errTypeNameSkipped}
    THEN errs[order[k]]
    ELSE ReportedError(errs, order, k + 1)

(* lines 801-807: the loop over bufSlice, from item i (counted from 1) on *)
RECURSIVE MergeItems(_, _, _, _, _)
MergeItems(slice, arrayBuf, i, hasPreviousItem, dataWritten) ==
    IF i > Len(slice) THEN arrayBuf
    ELSE With(MergeItem(slice[i], arrayBuf, hasPreviousItem, dataWritten), LAMBDA m :
            MergeItems(slice, m.arrayBuf, i + 1, m.hasPreviousItem, m.dataWritten))

(* lines 788-810: after wg.Wait() and the receive from errCh *)
ArrayJoined(c, array, arrayBuf, slice, err) ==
    IF err # nilErr THEN ArrayItemFailed(c, array, arrayBuf, err)
    ELSE Result(c, Write(MergeItems(slice, arrayBuf, 1, FALSE, 0), <<rBrack>>), nilErr)

(* resolveArrayAsynchronous resolving the items on the Context of its caller *)
resolveArrayAsynchronousOnCaller(c, array, arrayItems, arrayBuf) ==
    resolveArraySynchronous(c, array, arrayItems, arrayBuf)

resolveArrayAsynchronous(c, array, arrayItems, arrayBuf) ==
    With([i \in 1..Len(arrayItems) |-> ItemTask(c, array, arrayItems, i - 1)], LAMBDA results :
        ArrayJoined(c, array, Write(arrayBuf, <<lBrack>>),
                    [i \in 1..Len(arrayItems) |-> results[i].buf],
                    ReportedError([i \in 1..Len(arrayItems) |-> results[i].err],
                                  completionOrder, 1)))

resolveArray(c, array, data, arrayBuf) ==
    IF data = emptyArray THEN Result(c, resolveEmptyArray(arrayBuf), nilErr)
    ELSE With(ArrayEach(data, array.Path), LAMBDA arrayItems :
            IF Len(arrayItems) = 0
            THEN IF ~array.Nullable
                 THEN Result(c, resolveEmptyArray(arrayBuf), errNonNullableFieldValueIsNull)
                 ELSE Result(c, resolveNull(arrayBuf), nilErr)
            ELSE IF array.ResolveAsynchronous /\ ~array.Stream.Enabled
                 THEN resolveArrayAsynchronous(c, array, arrayItems, arrayBuf)
            ELSE resolveArraySynchronous(c, array, arrayItems, arrayBuf))

resolveNode(c, node, data, bufPair) ==
    CASE node.kind = "Object" -> resolveObject(c, node, data, bufPair)
      [] node.kind = "Array" -> resolveArray(c, node, data, bufPair)
      [] node.kind = "Null" ->
            Result(IF node.Defer.Enabled THEN preparePatch(c, node.Defer.PatchIndex, Nil, data)
                   ELSE c,
                   resolveNull(bufPair), nilErr)
      [] node.kind = "String" ->
            With(resolveString(node, data, bufPair), LAMBDA r : Result(c, r.buf, r.err))
      [] node.kind = "Boolean" ->
            With(resolveBoolean(node, data, bufPair), LAMBDA r : Result(c, r.buf, r.err))
      [] node.kind = "Integer" ->
            With(resolveInteger(node, data, bufPair), LAMBDA r : Result(c, r.buf, r.err))
      [] node.kind = "Float" ->
            With(resolveFloat(node, data, bufPair), LAMBDA r : Result(c, r.buf, r.err))
      [] node.kind = "EmptyObject" -> Result(c, resolveEmptyObject(bufPair), nilErr)
      [] node.kind = "EmptyArray" -> Result(c, resolveEmptyArray(bufPair), nilErr)
      [] OTHER -> Result(c, bufPair, nilErr)

(***************************************************************************)
(* The response envelope (resolve.go 1834-1872).  The writer is a record:  *)
(* the bytes it accepted, the Write calls so far, and the calls that fail. *)
(***************************************************************************)
NewWriter(failing) == [out |-> <<>>, writes |-> 0, failing |-> failing]

(* io.Writer.Write: the writer after the call and the call's error *)
WriterWrite(w, bytes) ==
    IF w.writes + 1 \in w.failing
    THEN [w |-> [w EXCEPT !.writes = @ + 1], err |-> errWrite]
    ELSE [w |-> [w EXCEPT !.writes = @ + 1, !.out = @ \o bytes], err |-> nilErr]

writeSafe(st, bytes) == IF st.err # nilErr THEN st ELSE WriterWrite(st.w, bytes)

RECURSIVE WriteAllSafe(_, _, _)
WriteAllSafe(st, parts, i) ==
    IF i > Len(parts) THEN st ELSE WriteAllSafe(writeSafe(st, parts[i]), parts, i + 1)

(* writeGraphqlResponse with hasData taken from the buffer alone *)
writeGraphqlResponseKeepsData(b, w, ignore) ==
    LET hasErrors == Len(b.Errors) # 0
        hasData == Len(b.Data) # 0
    IN With(writeSafe([w |-> w, err |-> nilErr], <<lBrace>>), LAMBDA opened :
       With(IF hasErrors
            THEN WriteAllSafe(opened, <<<<quote>>, <<literalErrors>>, <<quote>>, <<colon>>,
                                        <<lBrack>>, b.Errors, <<rBrack>>, <<comma>>>>, 1)
            ELSE opened, LAMBDA errored :
       With(WriteAllSafe(errored, <<<<quote>>, <<literalData>>, <<quote>>, <<colon>>>>, 1),
            LAMBDA keyed :
       With(IF hasData THEN WriterWrite(keyed.w, b.Data) ELSE writeSafe(keyed, <<null>>),
            LAMBDA valued : writeSafe(valued, <<rBrace>>)))))

writeGraphqlResponse(b, w, ignore) ==
    LET hasErrors == Len(b.Errors) # 0
        hasData == Len(b.Data) # 0 /\ ~ignore
    IN With(writeSafe([w |-> w, err |-> nilErr], <<lBrace>>), LAMBDA opened :
       With(IF hasErrors
            THEN WriteAllSafe(opened, <<<<quote>>, <<literalErrors>>, <<quote>>, <<colon>>,
                                        <<lBrack>>, b.Errors, <<rBrack>>, <<comma>>>>, 1)
            ELSE opened, LAMBDA errored :
       With(WriteAllSafe(errored, <<<<quote>>, <<literalData>>, <<quote>>, <<colon>>>>, 1),
            LAMBDA keyed :
       With(IF hasData THEN WriterWrite(keyed.w, b.Data) ELSE writeSafe(keyed, <<null>>),
            LAMBDA valued : writeSafe(valued, <<rBrace>>)))))

(* Resolver.ResolveGraphQLResponse (450-472): the context, the writer and the error *)
ResolveGraphQLResponse(c, resp, data, w) ==
    With(extractResponse(data, EmptyBufPair, graphqlConfig), LAMBDA responseBuf :
    With(resolveNode(c, resp.Data, responseBuf.Data, EmptyBufPair), LAMBDA r :
        IF r.err \notin {nilErr, errNonNullableFieldValueIsNull}
        THEN [ctx |-> r.ctx, w |-> w, err |-> r.err]
        ELSE With(writeGraphqlResponse(
                      IF Len(responseBuf.Errors) > 0
                      THEN MergeBufPairErrors(responseBuf, r.buf).to ELSE r.buf,
                      w, r.err # nilErr),
                  LAMBDA wr : [ctx |-> r.ctx, w |-> wr.w, err |-> wr.err])))

(***************************************************************************)
(* The Context between calls, and the patch queue (resolve.go 190-264,     *)
(* 399-404)                                                                *)
(***************************************************************************)
(* validateContext looking at the cursor alone *)
validateContextCursorOnly(c) == IF c.currentPatch # -1 THEN errInvalidContext ELSE nilErr

(* Resolver.validateContext (399-404) *)
validateContext(c) ==
    IF c.maxPatch # -1 \/ c.currentPatch # -1 THEN errInvalidContext ELSE nilErr

(* Free that hands the buffers back but leaves the patch queue and its bound *)
FreeKeepingQueue(c) ==
    [ctx |-> [c EXCEPT !.Variables = <<>>, !.pathPrefix = <<>>, !.pathElements = <<>>,
                       !.usedBuffers = 0, !.currentPatch = -1, !.position = NoPosition],
     put |-> c.usedBuffers]

(* Context.Free: the Context after it, and the buffers handed to pool.BytesBuffer.Put *)
Free(c) ==
    [ctx |-> [c EXCEPT !.Variables = <<>>, !.pathPrefix = <<>>, !.pathElements = <<>>,
                       !.patches = <<>>, !.usedBuffers = 0, !.currentPatch = -1,
                       !.maxPatch = -1, !.position = NoPosition],
     put |-> c.usedBuffers]

(* the parts joined with sep between them *)
RECURSIVE JoinAll(_, _)
JoinAll(parts, sep) ==
    IF parts = <<>> THEN <<>>
    ELSE IF Len(parts) = 1 THEN parts[1]
    ELSE parts[1] \o sep \o JoinAll(Tail(parts), sep)


(***************************************************************************)
(* InputTemplate.Render (resolve.go 1273-1416)                             *)
(***************************************************************************)
backslash == "\\"
StaticSegmentType == "Static"
VariableSegmentType == "Variable"
VariableSourceObject == "Object"
VariableSourceContext == "Context"
VariableSourceRequestHeader == "RequestHeader"
errHeaderPathInvalid ==
    "invalid header path: header variables must be of this format: .request.header.{{ key }} "
errKeyPathNotFound == "Key path not found"
errCannotResolveVariable == "InputTemplate.Render: cannot resolve variable of kind"

StaticSegment(data) ==
    [SegmentType |-> StaticSegmentType, Data |-> data, VariableSource |-> "none",
     VariableSourcePath |-> <<>>, RenderAsGraphQLValue |-> FALSE]
VariableSegment(source, sourcePath, asGraphQL) ==
    [SegmentType |-> VariableSegmentType, Data |-> <<>>, VariableSource |-> source,
     VariableSourcePath |-> sourcePath, RenderAsGraphQLValue |-> asGraphQL]

(* textproto.CanonicalMIMEHeaderKey on the header names in use *)
CanonicalMIMEHeaderKey(s) ==
    CASE s \in {"authorization", "Authorization", "AUTHORIZATION"} -> "Authorization"
      [] s \in {"x-id", "X-Id", "X-ID"} -> "X-Id"
      [] OTHER -> s

RECURSIVE renderGraphQLValue(_, _)
RECURSIVE GraphQLMembers(_, _, _)
RECURSIVE GraphQLElements(_, _, _)

(* jsonparser.ObjectEach with the callback of lines 1327-1336: key:value, comma-separated *)
GraphQLMembers(b, i, first) ==
    IF i > Len(b) \/ b[i] # quote THEN <<>>
    ELSE With(SkipString(b, i + 1), LAMBDA keyEnd :
         With(ValueEnd(b, keyEnd + 1), LAMBDA valEnd :
            IF keyEnd = 0 \/ valEnd = 0 THEN <<>>
            ELSE (IF first THEN <<>> ELSE <<comma>>)
                 \o Slice(b, i + 1, keyEnd - 1) \o <<colon>>
                 \o renderGraphQLValue(ValueAt(b, keyEnd + 1), TypeAt(b, keyEnd + 1))
                 \o (IF valEnd <= Len(b) /\ b[valEnd] = comma
                     THEN GraphQLMembers(b, valEnd + 1, FALSE) ELSE <<>>)))

(* jsonparser.ArrayEach with the callback of lines 1347-1354 *)
GraphQLElements(b, i, first) ==
    With(ValueEnd(b, i), LAMBDA valEnd :
        IF valEnd = 0 THEN <<>>
        ELSE (IF first THEN <<>> ELSE <<comma>>)
             \o renderGraphQLValue(ValueAt(b, i), TypeAt(b, i))
             \o (IF valEnd <= Len(b) /\ b[valEnd] = comma
                 THEN GraphQLElements(b, valEnd + 1, FALSE) ELSE <<>>))

(* lines 1318-1367: the bytes written for a well-formed value *)
renderGraphQLValue(data, valueType) ==
    CASE valueType = "String" -> <<backslash, quote>> \o data \o <<backslash, quote>>
      [] valueType = "Object" -> <<lBrace>> \o GraphQLMembers(data, 2, TRUE) \o <<rBrace>>
      [] valueType = "Null" -> <<null>>
      [] valueType = "Boolean" -> data
      [] valueType = "Array" -> <<lBrack>> \o GraphQLElements(data, 2, TRUE) \o <<rBrack>>
      [] valueType = "Number" -> data
      [] OTHER -> <<>>

Rendered(b, e) == [buf |-> b, err |-> e]

(* lines 1301-1308 *)
renderObjectVariable(data, sourcePath, preparedInput) ==
    With(Get(data, sourcePath), LAMBDA got :
        IF got.err THEN Rendered(preparedInput, errKeyPathNotFound)
        ELSE Rendered(preparedInput \o got.value, nilErr))

(* lines 1310-1316 *)
renderContextVariable(ctx, sourcePath, renderAsGraphQLValue, preparedInput) ==
    With(Get(ctx.Variables, sourcePath), LAMBDA got :
        IF got.err THEN Rendered(preparedInput, errKeyPathNotFound)
        ELSE IF ~renderAsGraphQLValue THEN Rendered(preparedInput \o got.value, nilErr)
        ELSE Rendered(preparedInput \o renderGraphQLValue(got.value, got.type), nilErr))

(* lines 1369-1392: ctx.Request.Header maps a canonical name to its values *)
renderHeaderVariable(ctx, sourcePath, preparedInput) ==
    IF Len(sourcePath) # 1 THEN Rendered(preparedInput, errHeaderPathInvalid)
    ELSE With(CanonicalMIMEHeaderKey(sourcePath[1]), LAMBDA canonicalName :
         With(IF canonicalName \in DOMAIN ctx.Header THEN ctx.Header[canonicalName] ELSE <<>>,
              LAMBDA value :
                Rendered(preparedInput \o JoinAll([j \in 1..Len(value) |-> <<value[j]>>],
                                                  <<comma>>),
                         nilErr)))

(* lines 1277-1299: the segments from j on; the first error ends the rendering *)
RECURSIVE RenderFrom(_, _, _, _, _)
RenderFrom(segments, j, ctx, data, preparedInput) ==
    IF j > Len(segments) THEN Rendered(preparedInput, nilErr)
    ELSE With(segments[j], LAMBDA seg :
         IF seg.SegmentType = StaticSegmentType
         THEN RenderFrom(segments, j + 1, ctx, data, preparedInput \o seg.Data)
         ELSE IF seg.SegmentType # VariableSegmentType
         THEN RenderFrom(segments, j + 1, ctx, data, preparedInput)
         ELSE With(CASE seg.VariableSource = VariableSourceObject ->
                            renderObjectVariable(data, seg.VariableSourcePath, preparedInput)
                     [] seg.VariableSource = VariableSourceContext ->
                            renderContextVariable(ctx, seg.VariableSourcePath,
                                                  seg.RenderAsGraphQLValue, preparedInput)
                     [] seg.VariableSource = VariableSourceRequestHeader ->
                            renderHeaderVariable(ctx, seg.VariableSourcePath, preparedInput)
                     [] OTHER -> Rendered(preparedInput, errCannotResolveVariable),
                   LAMBDA r : IF r.err # nilErr THEN r
                              ELSE RenderFrom(segments, j + 1, ctx, data, r.buf)))

Render(i, ctx, data, preparedInput) == RenderFrom(i.Segments, 1, ctx, data, preparedInput)

(* no Fetch: the nil interface value *)
NoFetchPlan == [kind |-> "none"]

(* a DataSource is what its Load writes and returns *)
SingleFetch(bufferId, template, dataSource, config) ==
    [kind |-> "SingleFetch", BufferId |-> bufferId, InputTemplate |-> [Segments |-> template],
     DataSource |-> dataSource, DisallowSingleFlight |-> FALSE,
     ProcessResponseConfig |-> config]
ParallelFetch(fetches) == [kind |-> "ParallelFetch", Fetches |-> fetches]

(* the SingleFetches a Fetch runs *)
Fetches(f) == IF f.kind = "ParallelFetch" THEN f.Fetches ELSE <<f>>


(* prepareSingleFetch returning nil whatever Render returned *)
prepareSingleFetchErrDropped(ctx, f, data, buffers) ==
    With(Render(f.InputTemplate, ctx, data, <<>>), LAMBDA r :
        [buffers |-> [id \in DOMAIN buffers \cup {f.BufferId} |->
                         IF id = f.BufferId THEN EmptyBufPair ELSE buffers[id]],
         preparedInput |-> r.buf,
         err |-> nilErr])

(* lines 1089-1094: the buffer is set for the BufferId also when Render failed *)
prepareSingleFetch(ctx, f, data, buffers) ==
    With(Render(f.InputTemplate, ctx, data, <<>>), LAMBDA r :
        [buffers |-> [id \in DOMAIN buffers \cup {f.BufferId} |->
                         IF id = f.BufferId THEN EmptyBufPair ELSE buffers[id]],
         preparedInput |-> r.buf,
         err |-> r.err])

(* the BufPairs of the pool by what they are got for: the prepared input of the i-th *)
(* fetch (lines 1055 and 1065), the result buffer of a BufferId (line 1091)          *)
PreparedInputPair(i) == [use |-> "preparedInput", n |-> i]
BufferPair(id) == [use |-> "set.buffers", n |-> id]

(* one round of the loop: r.getBufPair() of line 1065 (1055) and of line 1091 *)
GotFor(fetches, i) == {PreparedInputPair(i), BufferPair(fetches[i].BufferId)}

(* freeBufPair (1772-1776) *)
freeBufPair(pool, pair) == pool \ {pair}

(* freeBufPairSlice (1790-1796): the BufPairs in the slice *)
freeBufPairSlice(pool, slice) == pool \ {PreparedInputPair(i) : i \in 1..Len(slice)}

(* freeResultSet (1043-1050): the BufPairs in set.buffers *)
freeResultSet(pool, buffers) == pool \ {BufferPair(id) : id \in DOMAIN buffers}

(* the deferred call of line 1056 or of line 1064 *)
DeferredFree(f, pool, slice) ==
    IF f.kind = "SingleFetch" THEN freeBufPair(pool, PreparedInputPair(1))
    ELSE freeBufPairSlice(pool, slice)

(* lines 1064-1072: the children are prepared in order; the first error ends the loop *)
RECURSIVE PrepareFrom(_, _, _, _, _, _)
PrepareFrom(fetches, i, ctx, data, buffers, inputs) ==
    IF i > Len(fetches)
    THEN [buffers |-> buffers, inputs |-> inputs, err |-> nilErr, got |-> {}]
    ELSE With(prepareSingleFetch(ctx, fetches[i], data, buffers), LAMBDA p :
            IF p.err # nilErr
            THEN [buffers |-> p.buffers, inputs |-> inputs, err |-> p.err,
                  got |-> GotFor(fetches, i)]
            ELSE With(PrepareFrom(fetches, i + 1, ctx, data, p.buffers,
                                  Append(inputs, p.preparedInput)),
                      LAMBDA q : [q EXCEPT !.got = GotFor(fetches, i) \cup @]))

(* lines 1052-1087 run to their end: the children of a ParallelFetch leave the same  *)
(* buffers in whatever order they run; its join drops their errors.  The buffers are *)
(* those of set, the error is the one resolveFetch returns.                          *)
RECURSIVE LoadFrom(_, _, _)
LoadFrom(fetches, i, buffers) ==
    IF i > Len(fetches) THEN buffers
    ELSE LoadFrom(fetches, i + 1,
                  [buffers EXCEPT ![fetches[i].BufferId] =
                      extractResponse(fetches[i].DataSource.raw, @,
                                      fetches[i].ProcessResponseConfig)])

(* resolveFetch returning the error of the first child of a ParallelFetch that failed *)
resolveFetchChildErrKept(ctx, f, data, buffers) ==
    With(PrepareFrom(Fetches(f), 1, ctx, data, buffers, <<>>), LAMBDA p :
        IF p.err # nilErr THEN [buffers |-> p.buffers, err |-> p.err]
        ELSE [buffers |-> LoadFrom(Fetches(f), 1, p.buffers),
              err |-> With({i \in 1..Len(Fetches(f)) : Fetches(f)[i].DataSource.err # nilErr},
                           LAMBDA failed :
                               IF failed = {} THEN nilErr
                               ELSE Fetches(f)[CHOOSE i \in failed :
                                                   \A k \in failed : i <= k].DataSource.err)])

resolveFetch(ctx, f, data, buffers) ==
    With(PrepareFrom(Fetches(f), 1, ctx, data, buffers, <<>>), LAMBDA p :
        IF p.err # nilErr THEN [buffers |-> p.buffers, err |-> p.err]
        ELSE [buffers |-> LoadFrom(Fetches(f), 1, p.buffers),
              err |-> IF f.kind = "SingleFetch" THEN f.DataSource.err ELSE nilErr])

NoPatch == [path |-> Nil, extraPath |-> Nil, data |-> Nil, index |-> 0]

(* popNextPatch advancing the cursor by two *)
popNextPatchSkipping(c) ==
    With(c.currentPatch + 2,
         LAMBDA n : [ctx |-> [c EXCEPT !.currentPatch = n],
                     patch |-> IF n > c.maxPatch THEN NoPatch ELSE c.patches[n + 1],
                     ok |-> ~(n > c.maxPatch)])

(* Context.popNextPatch: the cursor moves even when there is no patch left *)
popNextPatch(c) ==
    With(c.currentPatch + 1, LAMBDA n :
        [ctx |-> [c EXCEPT !.currentPatch = n],
         patch |-> IF n > c.maxPatch THEN NoPatch ELSE c.patches[n + 1],
         ok |-> ~(n > c.maxPatch)])

(* io.Writer.Write on the []byte of a patch: a nil slice writes nothing *)
Bytes(b) == IF b = Nil THEN <<>> ELSE b

(***************************************************************************)
(* ResolveGraphQLResponsePatch (resolve.go 595-658); the writer is the     *)
(* bytes.Buffer of the streaming driver, whose Write does not fail.        *)
(* Returns the context, the buffer and the error.                          *)
(***************************************************************************)
(* PatchFetched leaving the errors of the fetch behind *)
PatchFetchedErrorsDropped(c, patch, data) ==
    IF patch.Fetch = NoFetchPlan THEN [err |-> nilErr, buf |-> EmptyBufPair, data |-> data]
    ELSE With(resolveFetch(c, patch.Fetch, data, [id \in {} |-> EmptyBufPair]), LAMBDA f :
            IF f.err # nilErr THEN [err |-> f.err, buf |-> EmptyBufPair, data |-> data]
            ELSE IF 0 \in DOMAIN f.buffers
            THEN [err |-> nilErr, buf |-> EmptyBufPair, data |-> f.buffers[0].Data]
            ELSE [err |-> nilErr, buf |-> EmptyBufPair, data |-> data])

(* lines 602-614: the data to resolve and the errors the fetch of the patch left *)
PatchFetched(c, patch, data) ==
    IF patch.Fetch = NoFetchPlan THEN [err |-> nilErr, buf |-> EmptyBufPair, data |-> data]
    ELSE With(resolveFetch(c, patch.Fetch, data, [id \in {} |-> EmptyBufPair]), LAMBDA f :
            IF f.err # nilErr THEN [err |-> f.err, buf |-> EmptyBufPair, data |-> data]
            ELSE IF 0 \in DOMAIN f.buffers
            THEN [err |-> nilErr, buf |-> MergeBufPairErrors(f.buffers[0], EmptyBufPair).to,
                  data |-> f.buffers[0].Data]
            ELSE [err |-> nilErr, buf |-> EmptyBufPair, data |-> data])

ResolveGraphQLResponsePatch(c, patch, data, patchPath, extraPath, w) ==
    With([c EXCEPT !.pathPrefix = Bytes(patchPath) \o Bytes(extraPath)], LAMBDA prefixed :
    With(PatchFetched(prefixed, patch, data), LAMBDA fetched :
        IF fetched.err # nilErr THEN [ctx |-> prefixed, w |-> w, err |-> fetched.err]
        ELSE
    With(resolveNode(prefixed, patch.Value, fetched.data, fetched.buf), LAMBDA r :
        IF r.err # nilErr THEN [ctx |-> r.ctx, w |-> w, err |-> r.err]
        ELSE IF Len(r.buf.Errors) # 0 THEN [ctx |-> r.ctx, w |-> w, err |-> nilErr]
        ELSE IF Len(r.buf.Data) # 0
        THEN [ctx |-> r.ctx,
              w |-> w \o <<lBrace, quote, literalOp, quote, colon, quote>> \o patch.Operation
                     \o <<quote, comma, quote, literalPath, quote, colon, quote>>
                     \o Bytes(patchPath)
                     \o <<quote, comma, quote, literalValue, quote, colon>>
                     \o r.buf.Data \o <<rBrace>>,
              err |-> nilErr]
        ELSE [ctx |-> r.ctx, w |-> w, err |-> nilErr])))

(* FlushWriter.Flush: what was written so far is a frame *)
Flush(fl, w) == Append(fl, Len(w.out))

(***************************************************************************)
(* Each specification below runs one part of the resolver; the variables   *)
(* of the other parts rest at these values.                                *)
(***************************************************************************)
NoNode == [kind |-> "none"]
NoArray == [kind |-> "none"]

ResolveIdle ==
    /\ response = [Data |-> NoNode]
    /\ requestData = <<>>
    /\ context = NewContext
    /\ returned = "none"
    /\ completionOrder = <<>>
    /\ rangeOrder = <<>>

AsyncIdle ==
    /\ asyncArray = NoArray
    /\ asyncItems = <<>>
    /\ asyncBuf = EmptyBufPair
    /\ bufSlice = <<>>
    /\ errCh = <<>>
    /\ wg = 0
    /\ task = <<>>
    /\ asyncErr = "none"
    /\ asyncStage = "start"

EnvelopeIdle ==
    /\ envelopeBuf = EmptyBufPair
    /\ ignoreData = FALSE

WriterIdle == writer = NewWriter({})

NoSnapshot == [out |-> <<>>, flushes |-> <<>>, pending |-> <<>>, seen |-> FALSE]

StreamIdle ==
    /\ stage = "idle"
    /\ call = "none"
    /\ calls = 0
    /\ streamBuf = <<>>
    /\ flushes = <<>>
    /\ done = FALSE
    /\ bytesBufferPool = [gets |-> 0, puts |-> 0]
    /\ startContext = [ctx |-> NewContext, used |-> FALSE]
    /\ used = FALSE
    /\ freed = FALSE
    /\ rendered = <<>>
    /\ emitted = <<>>
    /\ atDone = NoSnapshot

SubscriptionIdle ==
    /\ next = <<>>
    /\ nextClosed = FALSE
    /\ toSend = <<>>
    /\ resolverDone = FALSE
    /\ received = <<>>
    /\ atCancel = NoSnapshot
    /\ started = "none"

NoCall == [fn |-> "none"]

CallsIdle ==
    /\ args = NoCall
    /\ result = NoCall
    /\ planVariables = <<>>
    /\ patchContext = NewContext

NoFetchContext ==
    [Variables |-> <<>>, Header |-> [n \in {} |-> <<>>], beforeFetchHook |-> FALSE,
     afterFetchHook |-> FALSE, usedBuffers |-> 0]

FetchIdle ==
    /\ fetchPlan = [fetch |-> NoFetchPlan]
    /\ fetchData = <<>>
    /\ fetchCtx = NoFetchContext
    /\ resultSet = [id \in {} |-> EmptyBufPair]
    /\ preparedInputs = <<>>
    /\ fetchWg = 0
    /\ childPc = <<>>
    /\ appending = <<>>
    /\ lease = <<>>
    /\ childErr = <<>>
    /\ fetchStage = "idle"
    /\ fetchErr = "none"
    /\ loads = <<>>
    /\ hookLog = <<>>
    /\ bufPairPool = {}

UnitsIdle == CallsIdle /\ FetchIdle

DriverIdle == StreamIdle /\ SubscriptionIdle /\ UnitsIdle

(***************************************************************************)
(* Single-flight fetches: resolveSingleFetch (resolve.go 1097-1183)        *)
(***************************************************************************)
NumCallers == 3
Callers == 1..NumCallers
(* one entry per call: the pool's New is never needed *)
Entries == 1..NumCallers
NoCaller == 0
NoEntry == 0

Str(s) == <<quote, s, quote>>

(* the fetches a caller may run; the second renders to the same bytes dataSourceIdentifier || input as the first *)
SingleFlightFetches ==
    { [DataSourceIdentifier |-> <<"a">>, input |-> <<"b", "c">>, DisallowSingleFlight |-> FALSE,
       ProcessResponseConfig |-> graphqlConfig],
      [DataSourceIdentifier |-> <<"a", "b">>, input |-> <<"c">>, DisallowSingleFlight |-> FALSE,
       ProcessResponseConfig |-> graphqlConfig],
      [DataSourceIdentifier |-> <<"a">>, input |-> <<"b", "c">>, DisallowSingleFlight |-> TRUE,
       ProcessResponseConfig |-> graphqlConfig] }
NoFetch == [DataSourceIdentifier |-> <<>>, input |-> <<>>, DisallowSingleFlight |-> FALSE,
            ProcessResponseConfig |-> rawConfig]

(* what a data source may answer: the bytes it wrote and the error it returned *)
LoadResponses ==
    { [raw |-> <<lBrace>> \o Str("errors") \o <<colon, lBrack, lBrace>> \o Str("message") \o <<colon>>
               \o Str("m") \o <<rBrace, rBrack, comma>> \o Str("data") \o <<colon, lBrace>>
               \o Str("x") \o <<colon, "1", rBrace, rBrace>>,
       err |-> nilErr],
      [raw |-> <<lBrace>> \o Str("errors") \o <<colon, lBrack, lBrace>> \o Str("message") \o <<colon>>
               \o Str("down") \o <<rBrace, rBrack, rBrace>>,
       err |-> errLoad] }
NoResponse == [raw |-> <<>>, err |-> "none"]

Pair(f) == <<f.DataSourceIdentifier, f.input>>
Pairs == {Pair(f) : f \in SingleFlightFetches}

(* hash64.Write(DataSourceIdentifier); hash64.Write(input); Sum64(): a hash of the concatenation *)
FetchID(f) == f.DataSourceIdentifier \o f.input

FreshInflight == [waitLoad |-> 0, waitFree |-> 0, err |-> nilErr, bufPair |-> EmptyBufPair]

SFInit ==
    /\ EnableSingleFlightLoader \in BOOLEAN
    /\ inflightFetches = [k \in {} |-> NoEntry]
    /\ inflightFetchPool = Entries
    /\ inflight = [e \in Entries |-> FreshInflight]
    /\ freeing = {}
    /\ pc = [c \in Callers |-> "idle"]
    /\ fetch = [c \in Callers |-> NoFetch]
    /\ buf = [c \in Callers |-> EmptyBufPair]
    /\ ret = [c \in Callers |-> "none"]
    /\ entryOf = [c \in Callers |-> NoEntry]
    /\ loaded = [c \in Callers |-> NoResponse]
    /\ loadCalls = [p \in Pairs |-> 0]
    /\ registeredBy = [e \in Entries |-> NoCaller]
    /\ leaderOf = [c \in Callers |-> NoCaller]
    /\ foundInflight = [c \in Callers |-> FALSE]
    /\ overlapping = TRUE
    /\ hookCalls = [c \in Callers |-> <<>>]
    /\ ResolveIdle /\ WriterIdle /\ AsyncIdle /\ EnvelopeIdle /\ DriverIdle

(* the calls of ctx.afterFetchHook; every caller's Context carries the hook *)
OnData(singleFlight) == [hook |-> "OnData", singleFlight |-> singleFlight]
OnError(singleFlight) == [hook |-> "OnError", singleFlight |-> singleFlight]

(* lines 1110-1117: without single-flight *)
DirectHooks(b) ==
    (IF HasData(b) THEN <<OnData(FALSE)>> ELSE <<>>)
    \o (IF HasErrors(b) THEN <<OnError(FALSE)>> ELSE <<>>)

(* LeaderHooks passing false to OnError as it does to OnData *)
LeaderHooksNotFlagged(b) ==
    (IF HasData(b) THEN <<OnData(FALSE)>> ELSE <<>>)
    \o (IF HasErrors(b) THEN <<OnError(FALSE)>> ELSE <<>>)

(* lines 1157-1169: the caller that called Load for the entry *)
LeaderHooks(b) ==
    (IF HasData(b) THEN <<OnData(FALSE)>> ELSE <<>>)
    \o (IF HasErrors(b) THEN <<OnError(TRUE)>> ELSE <<>>)

(* lines 1132-1143: a caller that waited for the entry *)
WaiterDataHook(b) == IF HasData(b) THEN <<OnData(TRUE)>> ELSE <<>>
WaiterErrorsHook(b) == IF HasErrors(b) THEN <<OnError(TRUE)>> ELSE <<>>

(* lines 1097-1106: entry; without single-flight the caller goes on to call Load *)
Call(c, f) ==
    /\ pc[c] = "idle"
    /\ \A d \in Callers : d < c => pc[d] # "idle"   \* callers are interchangeable: they start in order
    /\ fetch' = [fetch EXCEPT ![c] = f]
    /\ overlapping' = (overlapping /\ \A d \in Callers : pc[d] # "done")
    /\ IF ~EnableSingleFlightLoader \/ f.DisallowSingleFlight
       THEN /\ pc' = [pc EXCEPT ![c] = "directLoad"]
            /\ loadCalls' = [loadCalls EXCEPT ![Pair(f)] = @ + 1]
       ELSE /\ pc' = [pc EXCEPT ![c] = "lock"]
            /\ UNCHANGED loadCalls
    /\ UNCHANGED <<EnableSingleFlightLoader, hookCalls, inflightFetches, inflightFetchPool, inflight,
                   freeing, buf, ret, entryOf, loaded, registeredBy, leaderOf, foundInflight>>
    /\ UNCHANGED <<resolveVars, asyncVars, envelopeVars, driverVars>>

(* lines 1106-1116: Load returns, the response is extracted into the caller's buffer *)
DirectLoadReturn(c, r) ==
    /\ pc[c] = "directLoad"
    /\ loaded' = [loaded EXCEPT ![c] = r]
    /\ buf' = [buf EXCEPT ![c] = extractResponse(r.raw, @, fetch[c].ProcessResponseConfig)]
    /\ ret' = [ret EXCEPT ![c] = r.err]
    /\ pc' = [pc EXCEPT ![c] = "done"]
    /\ hookCalls' = [hookCalls EXCEPT ![c] = @ \o DirectHooks(buf'[c])]
    /\ UNCHANGED <<EnableSingleFlightLoader, inflightFetches, inflightFetchPool, inflight,
                   freeing, fetch, entryOf, loadCalls, registeredBy, leaderOf, foundInflight, overlapping>>
    /\ UNCHANGED <<resolveVars, asyncVars, envelopeVars, driverVars>>

LeaderStates == {"leaderLoad", "leaderDone", "leaderDelete"}

(* RegisterWaiter forgetting line 1128, inflight.waitFree.Add(1) *)
RegisterWaiterNotCounted(c) ==
    LET id == FetchID(fetch[c])
        e == inflightFetches[id]
    IN /\ entryOf' = [entryOf EXCEPT ![c] = e]
       /\ leaderOf' = [leaderOf EXCEPT ![c] = registeredBy[e]]
       /\ pc' = [pc EXCEPT ![c] = "waitLoad"]
       /\ UNCHANGED <<inflight, inflightFetches, inflightFetchPool, loadCalls, registeredBy>>

(* lines 1125-1130: under the mutex, an entry is registered for the key: wait on it *)
RegisterWaiter(c) ==
    LET id == FetchID(fetch[c])
        e == inflightFetches[id]
    IN /\ inflight' = [inflight EXCEPT ![e].waitFree = @ + 1]
       /\ entryOf' = [entryOf EXCEPT ![c] = e]
       /\ leaderOf' = [leaderOf EXCEPT ![c] = registeredBy[e]]
       /\ pc' = [pc EXCEPT ![c] = "waitLoad"]
       /\ UNCHANGED <<inflightFetches, inflightFetchPool, loadCalls, registeredBy>>

(* RegisterLeader forgetting line 1149, r.inflightFetches[fetchID] = inflight *)
RegisterLeaderNotStored(c) ==
    LET e == CHOOSE x \in inflightFetchPool : \A y \in inflightFetchPool : x <= y
    IN /\ inflightFetchPool' = inflightFetchPool \ {e}
       /\ inflight' = [inflight EXCEPT ![e].waitLoad = @ + 1]
       /\ UNCHANGED inflightFetches
       /\ entryOf' = [entryOf EXCEPT ![c] = e]
       /\ loadCalls' = [loadCalls EXCEPT ![Pair(fetch[c])] = @ + 1]
       /\ registeredBy' = [registeredBy EXCEPT ![e] = c]
       /\ pc' = [pc EXCEPT ![c] = "leaderLoad"]
       /\ UNCHANGED leaderOf

(* lines 1147-1153: under the mutex, no entry: register one, unlock and call Load *)
RegisterLeader(c) ==
    (* getInflightFetch: pooled entries are reset and alike, the pool hands out the first *)
    LET e == CHOOSE x \in inflightFetchPool : \A y \in inflightFetchPool : x <= y
    IN /\ inflightFetchPool' = inflightFetchPool \ {e}
       /\ inflight' = [inflight EXCEPT ![e].waitLoad = @ + 1]
       /\ inflightFetches' =
             [k \in DOMAIN inflightFetches \cup {FetchID(fetch[c])} |->
                 IF k = FetchID(fetch[c]) THEN e ELSE inflightFetches[k]]
       /\ entryOf' = [entryOf EXCEPT ![c] = e]
       /\ loadCalls' = [loadCalls EXCEPT ![Pair(fetch[c])] = @ + 1]
       /\ registeredBy' = [registeredBy EXCEPT ![e] = c]
       /\ pc' = [pc EXCEPT ![c] = "leaderLoad"]
       /\ UNCHANGED leaderOf

Lookup(c) ==
    /\ pc[c] = "lock"
    /\ foundInflight' = [foundInflight EXCEPT ![c] =
           \E l \in Callers : /\ pc[l] \in LeaderStates
                              /\ FetchID(fetch[l]) = FetchID(fetch[c])]
    /\ IF FetchID(fetch[c]) \in DOMAIN inflightFetches
       THEN RegisterWaiter(c)
       ELSE RegisterLeader(c)
    /\ UNCHANGED <<EnableSingleFlightLoader, hookCalls, freeing, fetch, buf, ret, loaded, overlapping>>
    /\ UNCHANGED <<resolveVars, asyncVars, envelopeVars, driverVars>>

(* lines 1157-1169 and 1132-1143: copy the shared entry's data and errors *)
CopyData(e, b) ==
    IF HasData(inflight[e].bufPair) THEN [b EXCEPT !.Data = @ \o inflight[e].bufPair.Data] ELSE b
CopyErrors(e, b) ==
    IF HasErrors(inflight[e].bufPair)
    THEN [b EXCEPT !.Errors = @ \o inflight[e].bufPair.Errors] ELSE b

(* lines 1153-1169: the leader's Load returns; extract into the entry, copy to the caller *)
LeaderLoadReturn(c, r) ==
    /\ pc[c] = "leaderLoad"
    /\ loaded' = [loaded EXCEPT ![c] = r]
    /\ LET e == entryOf[c]
           shared == extractResponse(r.raw, inflight[e].bufPair, fetch[c].ProcessResponseConfig)
       IN /\ inflight' = [inflight EXCEPT ![e].bufPair = shared, ![e].err = r.err]
          /\ buf' = [buf EXCEPT ![c] =
                [Data |-> IF HasData(shared) THEN @.Data \o shared.Data ELSE @.Data,
                 Errors |-> IF HasErrors(shared) THEN @.Errors \o shared.Errors ELSE @.Errors]]
    /\ ret' = [ret EXCEPT ![c] = r.err]
    /\ pc' = [pc EXCEPT ![c] = "leaderDone"]
    /\ hookCalls' = [hookCalls EXCEPT ![c] = @ \o LeaderHooks(inflight'[entryOf[c]].bufPair)]
    /\ UNCHANGED <<EnableSingleFlightLoader, inflightFetches, inflightFetchPool, freeing, fetch,
                   entryOf, loadCalls, registeredBy, leaderOf, foundInflight, overlapping>>
    /\ UNCHANGED <<resolveVars, asyncVars, envelopeVars, driverVars>>

(* LeaderDone forgetting line 1171, inflight.waitLoad.Done() *)
LeaderDoneNotSignalled(c) ==
    /\ pc[c] = "leaderDone"
    /\ pc' = [pc EXCEPT ![c] = "leaderDelete"]
    /\ UNCHANGED <<EnableSingleFlightLoader, hookCalls, inflightFetches, inflightFetchPool, inflight,
                   freeing, fetch, buf, ret, entryOf, loaded, loadCalls, registeredBy, leaderOf,
                   foundInflight, overlapping>>
    /\ UNCHANGED <<resolveVars, asyncVars, envelopeVars, driverVars>>

(* line 1171: inflight.waitLoad.Done() *)
LeaderDone(c) ==
    /\ pc[c] = "leaderDone"
    /\ inflight' = [inflight EXCEPT ![entryOf[c]].waitLoad = @ - 1]
    /\ pc' = [pc EXCEPT ![c] = "leaderDelete"]
    /\ UNCHANGED <<EnableSingleFlightLoader, hookCalls, inflightFetches, inflightFetchPool, freeing, fetch,
                   buf, ret, entryOf, loaded, loadCalls, registeredBy, leaderOf, foundInflight, overlapping>>
    /\ UNCHANGED <<resolveVars, asyncVars, envelopeVars, driverVars>>

(* LeaderDelete deleting the key only after the entry was handed to the freeing goroutine:
   the key stays registered when the leader returns *)
LeaderDeleteKeyKept(c) ==
    /\ pc[c] = "leaderDelete"
    /\ UNCHANGED inflightFetches
    /\ freeing' = freeing \cup {entryOf[c]}
    /\ pc' = [pc EXCEPT ![c] = "done"]
    /\ UNCHANGED <<EnableSingleFlightLoader, hookCalls, inflightFetchPool, inflight, fetch, buf, ret,
                   entryOf, loaded, loadCalls, registeredBy, leaderOf, foundInflight, overlapping>>
    /\ UNCHANGED <<resolveVars, asyncVars, envelopeVars, driverVars>>

(* lines 1173-1182: delete the key under the mutex, start the freeing goroutine, return *)
LeaderDelete(c) ==
    /\ pc[c] = "leaderDelete"
    /\ inflightFetches' = [k \in DOMAIN inflightFetches \ {FetchID(fetch[c])} |-> inflightFetches[k]]
    /\ freeing' = freeing \cup {entryOf[c]}
    /\ pc' = [pc EXCEPT ![c] = "done"]
    /\ UNCHANGED <<EnableSingleFlightLoader, hookCalls, inflightFetchPool, inflight, fetch, buf, ret,
                   entryOf, loaded, loadCalls, registeredBy, leaderOf, foundInflight, overlapping>>
    /\ UNCHANGED <<resolveVars, asyncVars, envelopeVars, driverVars>>

(* the goroutine freeing the entry without waiting for its waiters *)
WaitFreeNotAwaited(e) == TRUE

(* the goroutine's guard, line 1178: inflight.waitFree.Wait() *)
WaitFreeDrained(e) == inflight[e].waitFree = 0

(* lines 1178-1179 and freeInflightFetch 1818-1823 *)
FreeInflight(e) ==
    /\ e \in freeing
    /\ WaitFreeDrained(e)
    /\ inflight' = [inflight EXCEPT ![e] = FreshInflight]
    /\ inflightFetchPool' = inflightFetchPool \cup {e}
    /\ freeing' = freeing \ {e}
    /\ UNCHANGED <<EnableSingleFlightLoader, hookCalls, inflightFetches, pc, fetch, buf, ret, entryOf,
                   loaded, loadCalls, registeredBy, leaderOf, foundInflight, overlapping>>
    /\ UNCHANGED <<resolveVars, asyncVars, envelopeVars, driverVars>>

(* line 1131: inflight.waitLoad.Wait() returns *)
WaiterWake(c) ==
    /\ pc[c] = "waitLoad"
    /\ inflight[entryOf[c]].waitLoad = 0
    /\ pc' = [pc EXCEPT ![c] = "waiterData"]
    /\ UNCHANGED <<EnableSingleFlightLoader, hookCalls, inflightFetches, inflightFetchPool, inflight, freeing,
                   fetch, buf, ret, entryOf, loaded, loadCalls, registeredBy, leaderOf, foundInflight,
                   overlapping>>
    /\ UNCHANGED <<resolveVars, asyncVars, envelopeVars, driverVars>>

(* lines 1132-1137 *)
WaiterData(c) ==
    /\ pc[c] = "waiterData"
    /\ buf' = [buf EXCEPT ![c] = CopyData(entryOf[c], @)]
    /\ pc' = [pc EXCEPT ![c] = "waiterErrors"]
    /\ hookCalls' = [hookCalls EXCEPT ![c] = @ \o WaiterDataHook(inflight[entryOf[c]].bufPair)]
    /\ UNCHANGED <<EnableSingleFlightLoader, inflightFetches, inflightFetchPool, inflight, freeing,
                   fetch, ret, entryOf, loaded, loadCalls, registeredBy, leaderOf, foundInflight, overlapping>>
    /\ UNCHANGED <<resolveVars, asyncVars, envelopeVars, driverVars>>

(* lines 1138-1143 *)
WaiterErrors(c) ==
    /\ pc[c] = "waiterErrors"
    /\ buf' = [buf EXCEPT ![c] = CopyErrors(entryOf[c], @)]
    /\ pc' = [pc EXCEPT ![c] = "waiterReturn"]
    /\ hookCalls' = [hookCalls EXCEPT ![c] = @ \o WaiterErrorsHook(inflight[entryOf[c]].bufPair)]
    /\ UNCHANGED <<EnableSingleFlightLoader, inflightFetches, inflightFetchPool, inflight, freeing,
                   fetch, ret, entryOf, loaded, loadCalls, registeredBy, leaderOf, foundInflight, overlapping>>
    /\ UNCHANGED <<resolveVars, asyncVars, envelopeVars, driverVars>>

(* line 1144 and the deferred waitFree.Done() of line 1129 *)
WaiterReturn(c) ==
    /\ pc[c] = "waiterReturn"
    /\ ret' = [ret EXCEPT ![c] = inflight[entryOf[c]].err]
    /\ inflight' = [inflight EXCEPT ![entryOf[c]].waitFree = @ - 1]
    /\ pc' = [pc EXCEPT ![c] = "done"]
    /\ UNCHANGED <<EnableSingleFlightLoader, hookCalls, inflightFetches, inflightFetchPool, freeing, fetch,
                   buf, entryOf, loaded, loadCalls, registeredBy, leaderOf, foundInflight, overlapping>>
    /\ UNCHANGED <<resolveVars, asyncVars, envelopeVars, driverVars>>

SFNext ==
    \/ \E c \in Callers, f \in SingleFlightFetches : Call(c, f)
    \/ \E c \in Callers, r \in LoadResponses : DirectLoadReturn(c, r)
    \/ \E c \in Callers : Lookup(c)
    \/ \E c \in Callers, r \in LoadResponses : LeaderLoadReturn(c, r)
    \/ \E c \in Callers : LeaderDone(c)
    \/ \E c \in Callers : LeaderDelete(c)
    \/ \E e \in Entries : FreeInflight(e)
    \/ \E c \in Callers : WaiterWake(c)
    \/ \E c \in Callers : WaiterData(c)
    \/ \E c \in Callers : WaiterErrors(c)
    \/ \E c \in Callers : WaiterReturn(c)

SpecSingleFlight == SFInit /\ [][SFNext]_vars

(* what a caller's goroutine does by itself once resolveSingleFetch was entered: every step but
   the call and the return of Load, which the data source decides *)
CallerStep(c) ==
    \/ Lookup(c)
    \/ LeaderDone(c)
    \/ LeaderDelete(c)
    \/ WaiterWake(c)
    \/ WaiterData(c)
    \/ WaiterErrors(c)
    \/ WaiterReturn(c)

(* the Go scheduler runs every goroutine that can run, sync.Mutex hands the lock to every
   goroutine that asks for it, and WaitGroup.Wait returns once the counter is zero: a caller
   and the freeing goroutine of lines 1177-1180 take their next step when it stays possible.
   Nothing makes a data source return from Load. *)
SFFairness ==
    /\ \A c \in Callers : WF_vars(CallerStep(c))
    /\ \A e \in Entries : WF_vars(FreeInflight(e))

SpecSingleFlightLive == SFInit /\ [][SFNext]_vars /\ SFFairness

(***************************************************************************)
(* Claims about single-flight                                              *)
(***************************************************************************)
SingleFlightCallers == {c \in Callers : pc[c] # "idle" /\ ~fetch[c].DisallowSingleFlight}
LoadingFor(p) == {c \in SingleFlightCallers : pc[c] = "leaderLoad" /\ Pair(fetch[c]) = p}
AllDone == \A c \in Callers : pc[c] = "done"
(* every caller ran the same fetch, none opted out of single-flight *)
IdenticalFetches ==
    /\ \A c, d \in Callers : Pair(fetch[c]) = Pair(fetch[d])
    /\ \A c \in Callers : ~fetch[c].DisallowSingleFlight
Waiters == {c \in Callers : leaderOf[c] # NoCaller}

(* C1: with single-flight enabled, at most one Load of callers that did not opt out is in
   progress per (DataSourceIdentifier, rendered input) pair, in every reachable state. *)
C1_AtMostOneLoadInProgress ==
    EnableSingleFlightLoader => \A p \in Pairs : Cardinality(LoadingFor(p)) <= 1

(* a leader's Load is in progress while two more callers of the same pair are coalesced on it *)
C1_Witness ==
    \E l \in Callers :
        /\ pc[l] = "leaderLoad"
        /\ Cardinality({w \in Callers : pc[w] = "waitLoad" /\ Pair(fetch[w]) = Pair(fetch[l])})
             = NumCallers - 1

(* C2 as stated: K identical fetches whose calls all overlap in time (every call starts before
   any returns) cause exactly one Load. *)
C2_ExactlyOneLoad ==
    (EnableSingleFlightLoader /\ AllDone /\ IdenticalFetches /\ overlapping)
        => \A c \in Callers : loadCalls[Pair(fetch[c])] = 1

(* C2 amended: among K identical fetches, Load is called once by each caller that reaches the
   map lookup while no leader of the key stands between its insert and its delete, and by no
   other; so exactly once iff all but the first look up before the leader deletes the key. *)
C2_OneLoadPerLookupOutsideFlight ==
    (EnableSingleFlightLoader /\ AllDone /\ IdenticalFetches)
        => \A c \in Callers :
              /\ loadCalls[Pair(fetch[c])] = Cardinality({d \in Callers : ~foundInflight[d]})
              /\ loadCalls[Pair(fetch[c])] >= 1

(* all K callers ran the same fetch, K - 1 of them were coalesced, Load was called once *)
C2_Witness ==
    /\ EnableSingleFlightLoader /\ AllDone /\ IdenticalFetches
    /\ Cardinality(Waiters) = NumCallers - 1
    /\ \A c \in Callers : loadCalls[Pair(fetch[c])] = 1

(* C3: a waiter that returned holds exactly the data and error bytes extracted from what the
   leader's Load wrote, and returned the error that Load returned; the leader holds the same. *)
C3_WaiterReceivesLeaderResult ==
    \A w \in Waiters :
        pc[w] = "done" =>
            LET l == leaderOf[w]
                extracted == extractResponse(loaded[l].raw, EmptyBufPair,
                                             fetch[l].ProcessResponseConfig)
            IN /\ buf[w] = extracted
               /\ ret[w] = loaded[l].err
               /\ buf[l] = buf[w]
               /\ ret[l] = ret[w]

(* two waiters of one leader returned, holding its data and its errors *)
C3_Witness ==
    \E w, v \in Waiters :
        /\ w # v /\ leaderOf[w] = leaderOf[v]
        /\ pc[w] = "done" /\ pc[v] = "done"
        /\ HasData(buf[w]) /\ HasErrors(buf[w])

(***************************************************************************)
(* Plan nodes (resolve.go 1191-1247, 1433-1485) and JSON inputs            *)
(***************************************************************************)
Integer(p, nullable) == [kind |-> "Integer", Path |-> p, Nullable |-> nullable]
String(p, nullable) == [kind |-> "String", Path |-> p, Nullable |-> nullable]
Null(defer) == [kind |-> "Null", Defer |-> defer]
Field(name, value, onTypeName, position) ==
    [Name |-> name, Value |-> value, Position |-> position, HasBuffer |-> FALSE,
     BufferID |-> 0, OnTypeName |-> onTypeName]
Object(p, nullable, fields) ==
    [kind |-> "Object", Path |-> p, Nullable |-> nullable, Fields |-> fields,
     Fetch |-> NoFetchPlan]
Array(p, nullable, async, item) ==
    [kind |-> "Array", Path |-> p, Nullable |-> nullable, ResolveAsynchronous |-> async,
     Item |-> item, Stream |-> NoStream]

At(line, column) == [Line |-> line, Column |-> column]

JString(s) == <<quote, s, quote>>
JMember(key, value) == <<quote, key, quote, colon>> \o value
JObject(members) == <<lBrace>> \o JoinAll(members, <<comma>>) \o <<rBrace>>
JArray(elements) == <<lBrack>> \o JoinAll(elements, <<comma>>) \o <<rBrack>>
JData(value) == JObject(<<JMember(literalData, value)>>)

(* all sequences over S of length at most n *)
RECURSIVE SeqsUpTo(_, _)
SeqsUpTo(S, n) ==
    IF n = 0 THEN {<<>>}
    ELSE SeqsUpTo(S, n - 1) \cup {Append(q, x) : q \in SeqsUpTo(S, n - 1), x \in S}

(* the members present: a member whose value is Absent is left out *)
Absent == <<"<absent>">>
RECURSIVE Present(_)
Present(members) ==
    IF members = <<>> THEN <<>>
    ELSE (IF Head(members)[2] = Absent THEN <<>>
          ELSE <<JMember(Head(members)[1], Head(members)[2])>>) \o Present(Tail(members))
JObjectOf(members) == JObject(Present(members))

(***************************************************************************)
(* Requests: ResolveGraphQLResponse on a plan and the data it walks        *)
(***************************************************************************)
MaxItems == 2

CompletionOrders == Permutations(1..MaxItems)

(* a root object with a leaf and a nested object of two leaves *)
NestedObjectPlans ==
    { Object(<<>>, nr, <<Field("a", Integer(<<"a">>, FALSE), Nil, At(1, 1)),
                         Field("o", Object(<<"o">>, no,
                                           <<Field("x", Integer(<<"x">>, nx), Nil, At(2, 2)),
                                             Field("y", String(<<"y">>, ny), Nil, At(2, 3))>>),
                               Nil, At(1, 2))>>)
      : nr \in BOOLEAN, no \in BOOLEAN, nx \in BOOLEAN, ny \in BOOLEAN }

NestedObjectData ==
    { JData(JObjectOf(<<<<"a", a>>, <<"o", o>>>>))
      : a \in {<<"1">>, <<null>>},
        o \in {Absent, <<null>>}
              \cup { JObjectOf(<<<<"x", x>>, <<"y", y>>>>)
                     : x \in {<<"1">>, <<null>>, Absent}, y \in {JString("s"), Absent} } }

(* a root object with a leaf and an array of objects *)
ObjectArrayPlans ==
    { Object(<<>>, nr, <<Field("a", Integer(<<"a">>, TRUE), Nil, At(1, 1)),
                         Field("l", Array(<<"l">>, nl, async,
                                          Object(<<>>, ni,
                                                 <<Field("x", Integer(<<"x">>, nx), Nil,
                                                         At(2, 2))>>)),
                               Nil, At(1, 2))>>)
      : nr \in BOOLEAN, nl \in BOOLEAN, ni \in BOOLEAN, nx \in BOOLEAN, async \in BOOLEAN }

ObjectItems == { JObjectOf(<<<<"x", x>>>>) : x \in {<<"1">>, <<"2">>, <<null>>} }

ObjectArrayData ==
    { JData(JObjectOf(<<<<"a", <<"7">>>>, <<"l", l>>>>))
      : l \in {Absent} \cup { JArray(items) : items \in SeqsUpTo(ObjectItems, MaxItems) } }

(* a root array of leaves *)
RootArrayPlans ==
    { Array(<<>>, nl, async, Integer(<<>>, ni))
      : nl \in BOOLEAN, ni \in BOOLEAN, async \in BOOLEAN }

RootArrayData ==
    { JData(JArray(items)) : items \in SeqsUpTo({<<"1">>, <<"2">>, <<null>>}, MaxItems) }

(* the root object of two leaves, the second one not nullable *)
HelloPlan ==
    Object(<<>>, FALSE, <<Field("hello", String(<<"hello">>, FALSE), Nil, NoPosition),
                          Field("n", Integer(<<"n">>, FALSE), Nil, NoPosition)>>)

HelloData ==
    { JData(JObjectOf(<<<<"hello", JString("world")>>, <<"n", n>>>>))
      : n \in {Absent, <<null>>, <<"1">>} }

(* a root object whose fields are gated by the type name *)
TypeNames == {Nil, <<"T">>}

GatedPlans ==
    { Object(<<>>, nr, <<Field("a", String(<<"a">>, TRUE), ta, At(1, 1)),
                         Field("b", String(<<"b">>, TRUE), tb, At(1, 2)),
                         Field("c", String(<<"c">>, TRUE), tc, At(1, 3))>>)
      : nr \in BOOLEAN, ta \in TypeNames, tb \in TypeNames, tc \in TypeNames }

GatedData ==
    { JData(JObjectOf(<<<<"__typename", t>>, <<"a", JString("p")>>, <<"b", b>>,
                        <<"c", JString("r")>>>>))
      : t \in {Absent, JString("T"), JString("U")}, b \in {Absent, JString("q")} }

(* an object all of whose fields are gated by the type name T *)
GatedObject(p, nullable) ==
    Object(p, nullable, <<Field("x", Integer(<<"x">>, TRUE), <<"T">>, At(2, 2)),
                          Field("y", Integer(<<"y">>, TRUE), <<"T">>, At(2, 3))>>)

Typed(t, x) == JObject(<<JMember("__typename", JString(t)), JMember("x", x)>>)
TypedItems == {Typed("T", <<"1">>), Typed("U", <<"2">>)}

(* the root object with an array of such objects *)
GatedArrayPlan(nullable, async) ==
    Object(<<>>, FALSE, <<Field("l", Array(<<"l">>, nullable, async, GatedObject(<<>>, FALSE)),
                                Nil, At(1, 1))>>)
GatedArrayData(items) == JData(JObject(<<JMember("l", JArray(items))>>))

(* the root object with such an object between two leaves *)
GatedFieldPlan(nullable) ==
    Object(<<>>, FALSE, <<Field("a", Integer(<<"a">>, FALSE), Nil, At(1, 1)),
                          Field("o", GatedObject(<<"o">>, nullable), Nil, At(1, 2)),
                          Field("b", Integer(<<"b">>, FALSE), Nil, At(1, 3))>>)
GatedFieldData(o) ==
    JData(JObject(<<JMember("a", <<"1">>), JMember("o", o), JMember("b", <<"2">>)>>))

GatedChildRequests ==
    ({GatedArrayPlan(n, async) : n \in BOOLEAN, async \in BOOLEAN}
        \X {GatedArrayData(items) : items \in SeqsUpTo(TypedItems, MaxItems) \ {<<>>}})
    \cup ({GatedFieldPlan(n) : n \in BOOLEAN} \X {GatedFieldData(o) : o \in TypedItems})

Requests ==
    GatedChildRequests
    \cup (NestedObjectPlans \X NestedObjectData)
    \cup (ObjectArrayPlans \X ObjectArrayData)
    \cup (RootArrayPlans \X RootArrayData)
    \cup ({HelloPlan} \X HelloData)
    \cup (GatedPlans \X GatedData)

SingleFlightIdle ==
    /\ EnableSingleFlightLoader = FALSE
    /\ inflightFetches = [k \in {} |-> NoEntry]
    /\ inflightFetchPool = Entries
    /\ inflight = [e \in Entries |-> FreshInflight]
    /\ freeing = {}
    /\ pc = [c \in Callers |-> "idle"]
    /\ fetch = [c \in Callers |-> NoFetch]
    /\ buf = [c \in Callers |-> EmptyBufPair]
    /\ ret = [c \in Callers |-> "none"]
    /\ entryOf = [c \in Callers |-> NoEntry]
    /\ loaded = [c \in Callers |-> NoResponse]
    /\ loadCalls = [p \in Pairs |-> 0]
    /\ registeredBy = [e \in Entries |-> NoCaller]
    /\ leaderOf = [c \in Callers |-> NoCaller]
    /\ foundInflight = [c \in Callers |-> FALSE]
    /\ overlapping = TRUE
    /\ hookCalls = [c \in Callers |-> <<>>]

ResolveInit ==
    /\ \E rq \in Requests : response = [Data |-> rq[1]] /\ requestData = rq[2]
    /\ context = NewContext
    /\ writer = NewWriter({})
    /\ returned = "none"
    /\ completionOrder \in CompletionOrders
    /\ rangeOrder = <<>>
    /\ SingleFlightIdle /\ AsyncIdle /\ EnvelopeIdle /\ DriverIdle

(* one call of ResolveGraphQLResponse(ctx, response, data, writer) *)
Resolve ==
    /\ returned = "none"
    /\ \E r \in {ResolveGraphQLResponse(context, response, requestData, writer)} :
          /\ context' = r.ctx
          /\ writer' = r.w
          /\ returned' = r.err
    /\ UNCHANGED <<response, requestData, completionOrder, rangeOrder>>
    /\ UNCHANGED <<sfVars, asyncVars, envelopeVars, driverVars>>

ResolveNext == Resolve

SpecResolve == ResolveInit /\ [][ResolveNext]_vars

(***************************************************************************)
(* Claims about the tree walker                                            *)
(***************************************************************************)
Done == returned # "none"
OutData == Member(writer.out, literalData)
OutErrors == Member(writer.out, literalErrors)
OutErrorList == IF OutErrors.err THEN <<>> ELSE ArrayEach(OutErrors.value, <<>>)
SourceData == Member(requestData, literalData).value

(* what a node is to render from its data under null propagation; Failed when the *)
(* node has no value and may not be null                                          *)
Failed == <<"<failed>">>
OrNull(node) == IF node.Nullable THEN <<null>> ELSE Failed

RECURSIVE Expected(_, _)
Expected(node, data) ==
    CASE node.kind = "Integer" ->
            LET got == Get(data, node.Path)
            IN IF ~got.err /\ got.type = "Number" THEN got.value ELSE OrNull(node)
      [] node.kind = "String" ->
            LET got == Get(data, node.Path)
            IN IF ~got.err /\ got.type = "String" THEN JString(got.value[1]) ELSE OrNull(node)
      [] node.kind = "Object" ->
            LET at == IF node.Path = <<>> THEN data ELSE Get(data, node.Path).value
                values == [i \in 1..Len(node.Fields) |-> Expected(node.Fields[i].Value, at)]
            IN IF at = <<>> \/ \E i \in 1..Len(node.Fields) : values[i] = Failed
               THEN OrNull(node)
               ELSE JObject([i \in 1..Len(node.Fields) |->
                                JMember(node.Fields[i].Name, values[i])])
      [] node.kind = "Array" ->
            LET items == ArrayEach(data, node.Path)
                values == [i \in 1..Len(items) |-> Expected(node.Item, items[i])]
            IN IF data = emptyArray THEN emptyArray
               ELSE IF items = <<>> \/ \E i \in 1..Len(items) : values[i] = Failed
               THEN OrNull(node)
               ELSE JArray(values)

RECURSIVE Ungated(_)
Ungated(node) ==
    CASE node.kind = "Object" ->
            \A i \in 1..Len(node.Fields) :
                node.Fields[i].OnTypeName = Nil /\ Ungated(node.Fields[i].Value)
      [] node.kind = "Array" -> Ungated(node.Item)
      [] OTHER -> TRUE

(* C4: when a non-nullable leaf or object yields null, the nearest nullable object  *)
(* or array above it renders exactly null instead of anything it had written, and   *)
(* the rest of the response is rendered as if nothing had failed: whenever some     *)
(* ancestor catches every failure, the call succeeds and the data written is the    *)
(* null-propagated rendering of the plan.                                           *)
C4_NearestNullableAncestorBecomesNull ==
    (Done /\ Ungated(response.Data) /\ Expected(response.Data, SourceData) # Failed)
    => /\ returned = nilErr
       /\ ~OutData.err
       /\ OutData.value = Expected(response.Data, SourceData)

(* C4 happens: the second element's non-nullable leaf is null, the non-nullable     *)
(* element passes the failure up, the nullable array had already taken the first    *)
(* element and becomes null, and the sibling field a is untouched.                  *)
C4_Witness ==
    /\ Done
    /\ response.Data \in ObjectArrayPlans
    /\ LET list == response.Data.Fields[2].Value
       IN list.Nullable /\ ~list.Item.Nullable /\ ~list.Item.Fields[1].Value.Nullable
    /\ Get(SourceData, <<"l">>).value
         = JArray(<<JObject(<<JMember("x", <<"1">>)>>), JObject(<<JMember("x", <<null>>)>>)>>)
    /\ returned = nilErr
    /\ OutData.value = JObject(<<JMember("a", <<"7">>), JMember("l", <<null>>)>>)

(* some non-nullable leaf has no value in its source and nothing above it is nullable *)
RECURSIVE UncaughtLeaf(_, _)
UncaughtLeaf(node, data) ==
    CASE node.kind = "Integer" ->
            ~node.Nullable /\ (Get(data, node.Path).err \/ Get(data, node.Path).type # "Number")
      [] node.kind = "String" ->
            ~node.Nullable /\ (Get(data, node.Path).err \/ Get(data, node.Path).type # "String")
      [] node.kind = "Object" ->
            LET at == IF node.Path = <<>> THEN data ELSE Get(data, node.Path).value
            IN /\ ~node.Nullable
               /\ at # <<>>
               /\ \E i \in 1..Len(node.Fields) : UncaughtLeaf(node.Fields[i].Value, at)
      [] node.kind = "Array" ->
            LET items == ArrayEach(data, node.Path)
            IN ~node.Nullable /\ \E i \in 1..Len(items) : UncaughtLeaf(node.Item, items[i])

UnableToResolve(e) == Member(e, literalMessage).value = <<unableToResolveMsg>>

(* C5: when a non-nullable leaf's source is null and no ancestor is nullable, the   *)
(* response written has data null and an error "unable to resolve" in its errors.   *)
C5_UncaughtFailureIsReported ==
    (Done /\ Ungated(response.Data) /\ UncaughtLeaf(response.Data, SourceData))
    => /\ returned = nilErr
       /\ OutData.value = <<null>>
       /\ \E i \in 1..Len(OutErrorList) : UnableToResolve(OutErrorList[i])

(* C6: the root object's non-nullable field n is absent from {"hello":"world"}: the *)
(* response has data null and exactly one error, "unable to resolve", with path     *)
(* ["n"].                                                                           *)
C6_MissingRootLeafErrorHasItsPath ==
    (/\ Done
     /\ response.Data = HelloPlan
     /\ requestData = JData(JObject(<<JMember("hello", JString("world"))>>)))
    => /\ OutData.value = <<null>>
       /\ Len(OutErrorList) = 1
       /\ UnableToResolve(OutErrorList[1])
       /\ Member(OutErrorList[1], literalPath).value = JArray(<<JString("n")>>)

(* the keys of a JSON object, in order; Malformed unless the bytes are members      *)
(* separated by single commas between the braces                                    *)
Malformed == <<"<malformed>">>
RECURSIVE MemberKeys(_, _)
MemberKeys(b, i) ==
    IF i + 4 > Len(b) \/ b[i] # quote \/ b[i + 2] # quote \/ b[i + 3] # colon THEN Malformed
    ELSE LET valEnd == ValueEnd(b, i + 4)
         IN IF valEnd = 0 \/ valEnd > Len(b) THEN Malformed
            ELSE IF b[valEnd] = rBrace
                 THEN IF valEnd = Len(b) THEN <<b[i + 1]>> ELSE Malformed
            ELSE IF b[valEnd] # comma THEN Malformed
            ELSE LET rest == MemberKeys(b, valEnd + 1)
                 IN IF rest = Malformed THEN Malformed ELSE <<b[i + 1]>> \o rest

ObjectKeys(b) == IF Len(b) < 2 \/ b[1] # lBrace THEN Malformed ELSE MemberKeys(b, 2)

(* the names of the fields whose type condition the data meets, in declaration order *)
RECURSIVE KeptNames(_, _)
KeptNames(fields, data) ==
    IF fields = <<>> THEN <<>>
    ELSE (IF Head(fields).OnTypeName = Nil
             \/ Get(data, <<"__typename">>).value = Head(fields).OnTypeName
          THEN <<Head(fields).Name>> ELSE <<>>) \o KeptNames(Tail(fields), data)

(* a field whose value is an object with every field gated out by OnTypeName: the *)
(* object around it is then rendered as {} (lines 1004-1008)                      *)
TypeSkipped(node, data) ==
    /\ node.kind = "Object"
    /\ \A i \in 1..Len(node.Fields) :
          /\ node.Fields[i].OnTypeName # Nil
          /\ Get(Get(data, node.Path).value, <<"__typename">>).value
                # node.Fields[i].OnTypeName

(* C7: a successfully rendered object has exactly the keys of its fields that are   *)
(* not gated out by OnTypeName, in the order of Object.Fields, as members separated *)
(* by single commas (and no key at all when the value of a field is type-skipped).  *)
C7_KeysInFieldOrder ==
    (Done /\ response.Data.kind = "Object" /\ returned = nilErr /\ OutData.type = "Object")
    => IF \E i \in 1..Len(response.Data.Fields) :
             TypeSkipped(response.Data.Fields[i].Value, SourceData)
       THEN OutData.value = <<lBrace, rBrace>>
       ELSE ObjectKeys(OutData.value) = KeptNames(response.Data.Fields, SourceData)

(* C7 happens: the middle field is gated out, the first and the last are rendered   *)
C7_Witness ==
    /\ Done
    /\ response.Data \in GatedPlans
    /\ response.Data.Fields[1].OnTypeName = Nil
    /\ response.Data.Fields[2].OnTypeName = <<"T">>
    /\ response.Data.Fields[3].OnTypeName = Nil
    /\ Get(SourceData, <<"__typename">>).value = <<"U">>
    /\ OutData.value = JObject(<<JMember("a", JString("p")), JMember("c", JString("r"))>>)

(***************************************************************************)
(* resolveArrayAsynchronous, one goroutine step at a time (748-811)        *)
(***************************************************************************)
DeepItem ==
    Object(<<>>, FALSE,
           <<Field("f", Object(<<>>, TRUE,
                               <<Field("g", Object(<<"g">>, FALSE,
                                                   <<Field("x", Integer(<<"x">>, TRUE), Nil,
                                                           At(3, 3))>>),
                                       Nil, At(2, 2))>>),
                   Nil, At(1, 1)),
             Field("h", Integer(<<"h">>, FALSE), Nil, At(1, 2))>>)

DeepItemData ==
    { JObjectOf(<<<<"g", g>>, <<"h", h>>>>)
      : g \in {Absent, JObject(<<JMember("x", <<"1">>)>>)}, h \in {Absent, <<"2">>} }

NonEmpty(S) == S \ {<<>>}

AsyncRequests ==
    ({ Array(<<>>, nl, TRUE, Integer(<<>>, ni)) : nl \in BOOLEAN, ni \in BOOLEAN }
       \X NonEmpty(SeqsUpTo({<<"1">>, <<"2">>, <<null>>}, MaxItems)))
    \cup ({ Array(<<>>, nl, TRUE, Object(<<>>, ni, <<Field("x", Integer(<<"x">>, FALSE), Nil,
                                                          At(2, 2))>>))
            : nl \in BOOLEAN, ni \in BOOLEAN }
          \X NonEmpty(SeqsUpTo(ObjectItems, MaxItems)))
    \cup ({ Array(<<>>, nl, TRUE, DeepItem) : nl \in BOOLEAN }
          \X NonEmpty(SeqsUpTo(DeepItemData, MaxItems)))

AsyncInit ==
    /\ \E rq \in AsyncRequests : asyncArray = rq[1] /\ asyncItems = rq[2]
    /\ asyncBuf = EmptyBufPair
    /\ bufSlice = <<>>
    /\ errCh = <<>>
    /\ wg = 0
    /\ task = <<>>
    /\ asyncErr = "none"
    /\ asyncStage = "start"
    /\ ResolveIdle /\ WriterIdle /\ SingleFlightIdle /\ EnvelopeIdle /\ DriverIdle

(* lines 750-779: the bracket, wg.Add, and one goroutine with its own itemBuf per item *)
Spawn ==
    /\ asyncStage = "start"
    /\ asyncBuf' = Write(asyncBuf, <<lBrack>>)
    /\ wg' = Len(asyncItems)
    /\ bufSlice' = [i \in 1..Len(asyncItems) |-> EmptyBufPair]
    /\ task' = [i \in 1..Len(asyncItems) |-> "running"]
    /\ asyncStage' = "spawned"
    /\ UNCHANGED <<asyncArray, asyncItems, errCh, asyncErr>>
    /\ UNCHANGED <<sfVars, resolveVars, envelopeVars, driverVars>>

(* lines 769-775: goroutine i resolves its item and offers its error to errCh *)
TaskResolve(i) ==
    /\ asyncStage = "spawned"
    /\ i \in DOMAIN task /\ task[i] = "running"
    /\ \E r \in {ItemTask(context, asyncArray, asyncItems, i - 1)} :
          /\ bufSlice' = [bufSlice EXCEPT ![i] = r.buf]
          /\ errCh' = IF r.err \notin {nilErr, errTypeNameSkipped} /\ errCh = <<>>
                      THEN <<r.err>> ELSE errCh
    /\ task' = [task EXCEPT ![i] = "resolved"]
    /\ completionOrder' = Append(completionOrder, i)
    /\ UNCHANGED <<asyncArray, asyncItems, asyncBuf, wg, asyncErr, asyncStage>>
    /\ UNCHANGED <<sfVars, response, requestData, context, writer, returned, rangeOrder,
                 envelopeVars, driverVars>>

(* lines 776-777: ctx.Free() on the clone and wg.Done() *)
TaskDone(i) ==
    /\ i \in DOMAIN task /\ task[i] = "resolved"
    /\ task' = [task EXCEPT ![i] = "done"]
    /\ wg' = wg - 1
    /\ UNCHANGED <<asyncArray, asyncItems, asyncBuf, bufSlice, errCh, asyncErr, asyncStage>>
    /\ UNCHANGED <<sfVars, resolveVars, envelopeVars, driverVars>>

(* wg.Wait() returning at once *)
WaitGroupNotAwaited == TRUE

(* line 781: wg.Wait() *)
WaitGroupWait == wg = 0

(* lines 781-795: the join, the receive from errCh, and the return on an error *)
JoinTasks ==
    /\ asyncStage = "spawned"
    /\ WaitGroupWait
    /\ errCh' = <<>>
    /\ IF errCh # <<>>
       THEN \E r \in {ArrayItemFailed(context, asyncArray, asyncBuf, errCh[1])} :
               /\ asyncBuf' = r.buf
               /\ asyncErr' = r.err
               /\ asyncStage' = "returned"
       ELSE /\ asyncStage' = "joined"
            /\ UNCHANGED <<asyncBuf, asyncErr>>
    /\ UNCHANGED <<asyncArray, asyncItems, bufSlice, wg, task>>
    /\ UNCHANGED <<sfVars, resolveVars, envelopeVars, driverVars>>

(* lines 797-810: the merge loop, the closing bracket and the return *)
Merge ==
    /\ asyncStage = "joined"
    /\ asyncBuf' = Write(MergeItems(bufSlice, asyncBuf, 1, FALSE, 0), <<rBrack>>)
    /\ asyncErr' = nilErr
    /\ asyncStage' = "returned"
    /\ UNCHANGED <<asyncArray, asyncItems, bufSlice, errCh, wg, task>>
    /\ UNCHANGED <<sfVars, resolveVars, envelopeVars, driverVars>>

AsyncNext ==
    \/ Spawn
    \/ \E i \in 1..MaxItems : TaskResolve(i)
    \/ \E i \in 1..MaxItems : TaskDone(i)
    \/ JoinTasks
    \/ Merge

SpecArray == AsyncInit /\ [][AsyncNext]_vars

(***************************************************************************)
(* Claims about arrays                                                     *)
(***************************************************************************)
SynchronousResult == resolveArraySynchronous(context, asyncArray, asyncItems, EmptyBufPair)
ItemResult(i) == ItemTask(context, asyncArray, asyncItems, i - 1)
AllItemsResolve == \A i \in 1..Len(asyncItems) : ItemResult(i).err = nilErr

(* C8: whatever the order in which the goroutines finish, resolveArrayAsynchronous   *)
(* leaves the data bytes and the error bytes, and returns the error, that            *)
(* resolveArraySynchronous does on the same array, items and item plan.              *)
C8_AsynchronousEqualsSynchronous ==
    asyncStage = "returned"
    => /\ asyncBuf.Data = SynchronousResult.buf.Data
       /\ asyncBuf.Errors = SynchronousResult.buf.Errors
       /\ asyncErr = SynchronousResult.err

(* C9: the merge starts only when every goroutine has finished, and when all the     *)
(* elements resolve the array holds them in index order, separated by single commas. *)
C9_IndexOrderAfterJoin ==
    /\ asyncStage \in {"joined", "returned"} => \A i \in DOMAIN task : task[i] = "done"
    /\ (asyncStage = "returned" /\ AllItemsResolve)
       => /\ asyncErr = nilErr
          /\ asyncBuf.Data = JArray([i \in 1..Len(asyncItems) |-> ItemResult(i).buf.Data])

(* C9 happens: the second goroutine finished first, the elements differ, and the     *)
(* first element comes first.                                                        *)
C9_Witness ==
    /\ asyncStage = "returned"
    /\ AllItemsResolve
    /\ completionOrder = <<2, 1>>
    /\ asyncItems = <<<<"1">>, <<"2">>>>
    /\ asyncBuf.Data = <<lBrack, "1", comma, "2", rBrack>>

(***************************************************************************)
(* writeGraphqlResponse on any buffers (1834-1864)                         *)
(***************************************************************************)
MaxFailingWrite == 15

ResolveError == addResolveError(NewContext, EmptyBufPair).Errors

EnvelopeInit ==
    /\ envelopeBuf \in [Data : {<<>>, <<"1">>, JObject(<<JMember("a", <<"1">>)>>)},
                        Errors : {<<>>, ResolveError,
                                  ResolveError \o <<comma>> \o ResolveError}]
    /\ ignoreData \in BOOLEAN
    /\ writer \in {NewWriter({})} \cup {NewWriter({k}) : k \in 1..MaxFailingWrite}
    /\ ResolveIdle /\ SingleFlightIdle /\ AsyncIdle /\ DriverIdle

WriteResponse ==
    /\ returned = "none"
    /\ \E r \in {writeGraphqlResponse(envelopeBuf, writer, ignoreData)} :
          writer' = r.w /\ returned' = r.err
    /\ UNCHANGED <<response, requestData, context, completionOrder, rangeOrder>>
    /\ UNCHANGED <<sfVars, asyncVars, envelopeVars, driverVars>>

EnvelopeNext == WriteResponse

SpecEnvelope == EnvelopeInit /\ [][EnvelopeNext]_vars

(* C10: a response written to a writer that takes every write is an object with the  *)
(* key data exactly once; the key errors is there iff the errors buffer is not empty *)
(* and comes first; data is the data buffer if that is not empty and ignoreData is   *)
(* false, and null otherwise.                                                        *)
C10_EnvelopeShape ==
    (Done /\ writer.failing = {})
    => /\ returned = nilErr
       /\ ObjectKeys(writer.out) = (IF envelopeBuf.Errors # <<>>
                                    THEN <<literalErrors, literalData>> ELSE <<literalData>>)
       /\ envelopeBuf.Errors # <<>>
          => OutErrors.value = <<lBrack>> \o envelopeBuf.Errors \o <<rBrack>>
       /\ OutData.value = (IF envelopeBuf.Data # <<>> /\ ~ignoreData THEN envelopeBuf.Data
                           ELSE <<null>>)

(* C10 happens: both buffers hold bytes and the data is to be ignored *)
C10_Witness ==
    /\ Done
    /\ writer.failing = {}
    /\ envelopeBuf.Errors # <<>>
    /\ envelopeBuf.Data # <<>>
    /\ ignoreData
    /\ ObjectKeys(writer.out) = <<literalErrors, literalData>>
    /\ OutData.value = <<null>>

(***************************************************************************)
(* ResolveGraphQLStreamingResponse (522-593), one loop iteration at a time, *)
(* and the calls that follow it on the same Context                        *)
(***************************************************************************)
MaxStreamItems == 3
MaxCalls == 2

Streamed(array, n, patchIndex) ==
    [array EXCEPT !.Stream = [Enabled |-> TRUE, InitialBatchSize |-> n,
                              PatchIndex |-> patchIndex]]

Patch(value) == [Value |-> value, Fetch |-> NoFetchPlan, Operation |-> <<"add">>]

StreamingResponse(data, patches) ==
    [InitialResponse |-> [Data |-> data], Patches |-> patches, FlushInterval |-> 0]

(* the root object with one field, a streamed array *)
ItemsPlan(item, n, patchIndex) ==
    Object(<<>>, FALSE,
           <<Field("items", Streamed(Array(<<"items">>, TRUE, FALSE, item), n, patchIndex),
                   Nil, At(1, 1))>>)

ItemsData(items) == JData(JObject(<<JMember("items", JArray(items))>>))

(* an item that renders with an error and no failure when its inner leaf is missing *)
GuardedItem ==
    Object(<<>>, TRUE,
           <<Field("o", Object(<<"o">>, FALSE,
                               <<Field("h", Integer(<<"h">>, FALSE), Nil, At(2, 2))>>),
                   Nil, At(1, 1))>>)

GoodItem == JObject(<<JMember("o", JObject(<<JMember("h", <<"1">>)>>))>>)
BadItem == JObject(<<JMember("o", JObject(<<>>))>>)

(* an item that is itself a streamed array *)
InnerArray(n, patchIndex) == Streamed(Array(<<>>, TRUE, FALSE, Integer(<<>>, FALSE)), n, patchIndex)

(* an item that is a deferred null, or an object with a deferred field *)
Deferred(patchIndex) == [Enabled |-> TRUE, PatchIndex |-> patchIndex]
DeferredItems ==
    {Null(Deferred(0)), Object(<<>>, TRUE, <<Field("d", Null(Deferred(0)), Nil, At(2, 2))>>)}

(* the root object with an array of deferred items that is not streamed *)
DeferredPlan(item, async) ==
    Object(<<>>, FALSE, <<Field("items", Array(<<"items">>, TRUE, async, item), Nil, At(1, 1))>>)

(* a patch that loads its value: the input is rendered from the element's id, the data *)
(* source answers with load                                                           *)
LoadingPatch(load) ==
    [Patch(Integer(<<"x">>, TRUE)) EXCEPT
        !.Fetch = SingleFetch(0, <<StaticSegment(<<"q">>),
                                   VariableSegment(VariableSourceObject, <<"id">>, FALSE)>>,
                              load, rawConfig)]

PatchLoads == {[raw |-> JObject(<<JMember("x", <<"1">>)>>), err |-> nilErr],
               [raw |-> <<>>, err |-> errLoad]}

StreamRequests ==
    { [response |-> StreamingResponse(ItemsPlan(GuardedItem, n, pi), <<Patch(GuardedItem)>>),
       data |-> ItemsData(items), failing |-> {}]
      : n \in 0..2, pi \in 0..1, items \in SeqsUpTo({GoodItem, BadItem}, MaxStreamItems) }
    \cup
    { [response |-> StreamingResponse(ItemsPlan(Integer(<<>>, FALSE), n, 0),
                                      <<Patch(Integer(<<>>, FALSE))>>),
       data |-> ItemsData(items), failing |-> f]
      : n \in 0..1, items \in SeqsUpTo({<<"1">>, <<null>>}, 2), f \in {{}, {1}, {8}} }
    \cup
    { [response |-> StreamingResponse(ItemsPlan(InnerArray(1, 0), 0, 0),
                                      <<Patch(InnerArray(n, pi)), Patch(Integer(<<>>, FALSE))>>),
       data |-> ItemsData(items), failing |-> {}]
      : n \in 0..1, pi \in 1..2,
        items \in NonEmpty(SeqsUpTo({JArray(<<<<"1">>>>), JArray(<<<<"1">>, <<"2">>>>)}, 2)) }
    \cup
    { [response |-> StreamingResponse(DeferredPlan(item, async),
                                      <<Patch(Integer(<<"d">>, FALSE))>>),
       data |-> ItemsData(items), failing |-> {}]
      : item \in DeferredItems, async \in BOOLEAN,
        items \in NonEmpty(SeqsUpTo({JObject(<<JMember("d", <<"1">>)>>)}, 2)) }
    \cup
    { [response |-> StreamingResponse(ItemsPlan(Integer(<<"id">>, TRUE), 0, 0),
                                      <<LoadingPatch(load)>>),
       data |-> ItemsData(items), failing |-> {}]
      : load \in PatchLoads,
        items \in NonEmpty(SeqsUpTo({JObject(<<JMember("id", <<"1">>)>>), JObject(<<>>)}, 3)) }

StreamInit ==
    /\ \E rq \in StreamRequests :
          /\ response = rq.response
          /\ requestData = rq.data
          /\ writer = NewWriter(rq.failing)
    /\ context = NewContext
    /\ returned = "none"
    /\ completionOrder = <<>>
    /\ rangeOrder = <<>>
    /\ StreamIdle /\ SubscriptionIdle /\ UnitsIdle
    /\ SingleFlightIdle /\ AsyncIdle /\ EnvelopeIdle

(* the buffers leased through the Context between c and d *)
Leased(pool, c, d) == [pool EXCEPT !.gets = @ + (d.usedBuffers - c.usedBuffers)]

StreamIdleVars == <<sfVars, asyncVars, envelopeVars, subscriptionVars, unitVars>>

(* lines 524-541: validateContext, the initial response, its flush, and the open bracket *)
StreamingCall ==
    /\ stage = "idle" /\ calls < MaxCalls
    /\ call' = "streaming" /\ calls' = calls + 1
    /\ startContext' = [ctx |-> context, used |-> used]
    /\ freed' = FALSE
    /\ IF validateContext(context) # nilErr
       THEN /\ returned' = validateContext(context)
            /\ stage' = "returned"
            /\ UNCHANGED <<context, writer, flushes, streamBuf, used, bytesBufferPool>>
       ELSE \E r \in {ResolveGraphQLResponse(context, response.InitialResponse, requestData,
                                             writer)} :
               /\ context' = r.ctx
               /\ writer' = r.w
               /\ used' = TRUE
               /\ bytesBufferPool' = Leased(bytesBufferPool, context, r.ctx)
               /\ IF r.err # nilErr
                  THEN /\ returned' = r.err
                       /\ stage' = "returned"
                       /\ UNCHANGED <<flushes, streamBuf>>
                  ELSE /\ flushes' = Flush(flushes, r.w)
                       /\ streamBuf' = <<lBrack>>
                       /\ stage' = "loop"
                       /\ UNCHANGED returned
    /\ UNCHANGED <<response, requestData, completionOrder, rangeOrder,
                 done, rendered, emitted, atDone>>
    /\ UNCHANGED StreamIdleVars

(* ctx.Context is cancelled while the driver drains the queue *)
Cancel ==
    /\ stage = "loop" /\ call = "streaming" /\ ~done
    /\ done' = TRUE
    /\ UNCHANGED <<stage, call, calls, streamBuf, flushes, bytesBufferPool, startContext, used,
                   freed, rendered, emitted, atDone>>
    /\ UNCHANGED <<resolveVars, StreamIdleVars>>

(* a driver that writes and flushes what buf holds when it finds Done ready *)
SeeDoneWritingPending ==
    /\ stage = "loop" /\ call = "streaming" /\ done
    /\ stage' = "returned"
    /\ returned' = nilErr
    /\ atDone' = [out |-> writer.out, flushes |-> flushes, pending |-> streamBuf, seen |-> TRUE]
    /\ \E w \in {WriterWrite(writer, streamBuf \o <<rBrack>>)} :
          /\ writer' = w.w
          /\ flushes' = Flush(flushes, w.w)
    /\ UNCHANGED <<response, requestData, context, completionOrder, rangeOrder>>
    /\ UNCHANGED <<call, calls, streamBuf, done, bytesBufferPool, startContext, used,
                   freed, rendered, emitted>>
    /\ UNCHANGED StreamIdleVars

(* lines 545-547: Done is ready, so the select takes it *)
SeeDone ==
    /\ stage = "loop" /\ call = "streaming" /\ done
    /\ stage' = "returned"
    /\ returned' = nilErr
    /\ atDone' = [out |-> writer.out, flushes |-> flushes, pending |-> streamBuf, seen |-> TRUE]
    /\ UNCHANGED <<response, requestData, context, writer, completionOrder, rangeOrder>>
    /\ UNCHANGED <<call, calls, streamBuf, flushes, done, bytesBufferPool, startContext, used,
                   freed, rendered, emitted>>
    /\ UNCHANGED StreamIdleVars

(* lines 549-556: the patch popped names no prepared patch *)
SkipPatch ==
    /\ stage = "loop" /\ call = "streaming" /\ ~done
    /\ \E p \in {popNextPatch(context)} :
          /\ p.ok
          /\ p.patch.index > Len(response.Patches) - 1
          /\ context' = p.ctx
    /\ UNCHANGED <<response, requestData, writer, returned, completionOrder, rangeOrder>>
    /\ UNCHANGED <<streamVars, StreamIdleVars>>

(* lines 558-560: a comma unless buf holds the open bracket alone *)
Separated(b) == IF Len(b) # 1 THEN b \o <<comma>> ELSE b

(* RenderPatch writing what buf holds when the rendering of the patch fails *)
RenderPatchWritingPending ==
    /\ stage = "loop" /\ call = "streaming" /\ ~done
    /\ \E p \in {popNextPatch(context)} :
          /\ p.ok
          /\ ~(p.patch.index > Len(response.Patches) - 1)
          /\ \E late \in BOOLEAN :
             \E r \in {ResolveGraphQLResponsePatch(p.ctx, response.Patches[p.patch.index + 1],
                                                   p.patch.data, p.patch.path,
                                                   p.patch.extraPath, Separated(streamBuf))} :
                /\ context' = r.ctx
                /\ bytesBufferPool' = Leased(bytesBufferPool, context, r.ctx)
                /\ rendered' = Append(rendered, p.ctx.currentPatch)
                /\ emitted' = IF r.w # Separated(streamBuf)
                              THEN Append(emitted, p.ctx.currentPatch) ELSE emitted
                /\ IF r.err # nilErr \/ late
                   THEN \E w \in {WriterWrite(writer, r.w \o <<rBrack>>)} :
                           /\ writer' = w.w
                           /\ IF r.err # nilErr \/ w.err # nilErr
                              THEN /\ returned' = IF r.err # nilErr THEN r.err ELSE w.err
                                   /\ stage' = "returned"
                                   /\ streamBuf' = r.w \o <<rBrack>>
                                   /\ flushes' = IF w.err # nilErr THEN flushes
                                                 ELSE Flush(flushes, w.w)
                              ELSE /\ flushes' = Flush(flushes, w.w)
                                   /\ streamBuf' = <<lBrack>>
                                   /\ UNCHANGED <<returned, stage>>
                   ELSE /\ streamBuf' = r.w
                        /\ UNCHANGED <<writer, flushes, returned, stage>>
    /\ UNCHANGED <<response, requestData, completionOrder, rangeOrder>>
    /\ UNCHANGED <<call, calls, done, startContext, used, freed, atDone>>
    /\ UNCHANGED StreamIdleVars

(* lines 549-579: a patch is popped and rendered into buf; when the flush interval has *)
(* passed (late) the frame is closed, written and flushed                              *)
RenderPatch ==
    /\ stage = "loop" /\ call = "streaming" /\ ~done
    /\ \E p \in {popNextPatch(context)} :
          /\ p.ok
          /\ ~(p.patch.index > Len(response.Patches) - 1)
          /\ \E late \in BOOLEAN :
             \E r \in {ResolveGraphQLResponsePatch(p.ctx, response.Patches[p.patch.index + 1],
                                                   p.patch.data, p.patch.path,
                                                   p.patch.extraPath, Separated(streamBuf))} :
                /\ context' = r.ctx
                /\ bytesBufferPool' = Leased(bytesBufferPool, context, r.ctx)
                /\ rendered' = Append(rendered, p.ctx.currentPatch)
                /\ emitted' = IF r.w # Separated(streamBuf)
                              THEN Append(emitted, p.ctx.currentPatch) ELSE emitted
                /\ IF r.err # nilErr
                   THEN /\ returned' = r.err
                        /\ stage' = "returned"
                        /\ streamBuf' = r.w
                        /\ UNCHANGED <<writer, flushes>>
                   ELSE IF late
                   THEN \E w \in {WriterWrite(writer, r.w \o <<rBrack>>)} :
                           /\ writer' = w.w
                           /\ IF w.err # nilErr
                              THEN /\ returned' = w.err
                                   /\ stage' = "returned"
                                   /\ streamBuf' = r.w \o <<rBrack>>
                                   /\ UNCHANGED flushes
                              ELSE /\ flushes' = Flush(flushes, w.w)
                                   /\ streamBuf' = <<lBrack>>
                                   /\ UNCHANGED <<returned, stage>>
                   ELSE /\ streamBuf' = r.w
                        /\ UNCHANGED <<writer, flushes, returned, stage>>
    /\ UNCHANGED <<response, requestData, completionOrder, rangeOrder>>
    /\ UNCHANGED <<call, calls, done, startContext, used, freed, atDone>>
    /\ UNCHANGED StreamIdleVars

(* lines 549-552 and 583-592: the queue is drained; what is left in buf is written *)
Finish ==
    /\ stage = "loop" /\ call = "streaming" /\ ~done
    /\ \E p \in {popNextPatch(context)} :
          /\ ~p.ok
          /\ context' = p.ctx
    /\ stage' = "returned"
    /\ IF Len(streamBuf) # 1
       THEN \E w \in {WriterWrite(writer, streamBuf \o <<rBrack>>)} :
               /\ writer' = w.w
               /\ streamBuf' = streamBuf \o <<rBrack>>
               /\ returned' = w.err
               /\ flushes' = IF w.err # nilErr THEN flushes ELSE Flush(flushes, w.w)
       ELSE /\ returned' = nilErr
            /\ UNCHANGED <<writer, streamBuf, flushes>>
    /\ UNCHANGED <<response, requestData, completionOrder, rangeOrder>>
    /\ UNCHANGED <<call, calls, done, bytesBufferPool, startContext, used, freed, rendered,
                   emitted, atDone>>
    /\ UNCHANGED StreamIdleVars

(* ResolveGraphQLResponse (450-472) called with the Context as it is *)
ResponseCall ==
    /\ stage = "idle" /\ calls < MaxCalls
    /\ call' = "response" /\ calls' = calls + 1
    /\ startContext' = [ctx |-> context, used |-> used]
    /\ freed' = FALSE
    /\ used' = TRUE
    /\ \E r \in {ResolveGraphQLResponse(context, response.InitialResponse, requestData, writer)} :
          /\ context' = r.ctx
          /\ writer' = r.w
          /\ returned' = r.err
          /\ bytesBufferPool' = Leased(bytesBufferPool, context, r.ctx)
    /\ stage' = "returned"
    /\ UNCHANGED <<response, requestData, completionOrder, rangeOrder>>
    /\ UNCHANGED <<streamBuf, flushes, done, rendered, emitted, atDone>>
    /\ UNCHANGED StreamIdleVars

(* the caller is handed the result; the next call gets a writer of its own *)
Returned ==
    /\ stage' = "idle"
    /\ returned' = "none"
    /\ writer' = NewWriter(writer.failing)
    /\ flushes' = <<>>
    /\ streamBuf' = <<>>
    /\ rendered' = <<>>
    /\ emitted' = <<>>
    /\ atDone' = NoSnapshot
    /\ UNCHANGED <<response, requestData, completionOrder, rangeOrder, call, calls>>
    /\ UNCHANGED StreamIdleVars

(* Context.Free (190-206) after a call, with a fresh context.Context for the next one *)
FreeContext ==
    /\ stage = "returned"
    /\ \E f \in {Free(context)} :
          /\ context' = f.ctx
          /\ bytesBufferPool' = [bytesBufferPool EXCEPT !.puts = @ + f.put]
    /\ startContext' = [ctx |-> context, used |-> used]
    /\ used' = FALSE
    /\ freed' = TRUE
    /\ done' = FALSE
    /\ Returned

(* the Context is used again without Free *)
Reuse ==
    /\ stage = "returned" /\ calls < MaxCalls
    /\ UNCHANGED <<context, bytesBufferPool, startContext, used, freed, done>>
    /\ Returned

StreamNext ==
    \/ StreamingCall
    \/ Cancel
    \/ SeeDone
    \/ SkipPatch
    \/ RenderPatch
    \/ Finish
    \/ ResponseCall
    \/ FreeContext
    \/ Reuse

SpecStream == StreamInit /\ [][StreamNext]_vars

(***************************************************************************)
(* Claims about streamed arrays and the streaming driver                   *)
(***************************************************************************)
StreamItemSeqs ==
    SeqsUpTo({GoodItem, BadItem}, MaxStreamItems)
    \cup SeqsUpTo({<<"1">>, <<null>>}, 2)
    \cup SeqsUpTo({JArray(<<<<"1">>>>), JArray(<<<<"1">>, <<"2">>>>)}, 2)

StreamedArray == response.InitialResponse.Data.Fields[1].Value
Least(a, b) == IF a < b THEN a ELSE b

(* what an element of the requests above renders to *)
Inline(item) == IF item = BadItem THEN <<null>> ELSE item

(* the patches a streamed array queues for its elements from index n on *)
StreamedPatches(items, n, patchIndex) ==
    [k \in 1..(Len(items) - Least(n, Len(items))) |->
        [path |-> <<"/", literalData, "/", "items", "/", ToString(n + k - 1)>>,
         extraPath |-> Nil, data |-> items[n + k], index |-> patchIndex]]

(* the initial response has been resolved and no patch has been popped yet *)
InitialResolved == call = "streaming" /\ stage = "loop" /\ context.currentPatch = -1

InRange(c) ==
    LET known(k) == ~(c.patches[k + 1].index > Len(response.Patches) - 1)
    IN SelectSeq([k \in 1..Len(c.patches) |-> k - 1], known)

Count(b, token) == Cardinality({j \in 1..Len(b) : b[j] = token})

(* the streaming driver returned nil and never saw ctx.Done() ready *)
Completed == call = "streaming" /\ stage = "returned" /\ returned = nilErr /\ ~atDone.seen

(* C12: when the streaming driver completes without cancellation or error, the queue is *)
(* drained, the patches that name a prepared patch were rendered once each in queue     *)
(* order (those queued while a patch was rendered included), the others produced no     *)
(* output, and the initial response was flushed before any patch object was written.    *)
C12_PatchesRenderedOnceInFifoOrder ==
    Completed
    => /\ context.currentPatch = context.maxPatch + 1
       /\ context.maxPatch = Len(context.patches) - 1
       /\ rendered = InRange(context)
       /\ \A k \in 1..Len(emitted) : \E j \in 1..Len(rendered) : rendered[j] = emitted[k]
       /\ Len(flushes) >= 1
       /\ Count(SubSeq(writer.out, 1, flushes[1]), literalOp) = 0
       /\ Count(writer.out, literalOp) = Len(emitted)

(* C12 happens: a patch queued while another patch was rendered has been rendered too *)
C12_Witness ==
    /\ Completed
    /\ Len(rendered) >= 3
    /\ \E j \in 1..Len(rendered) :
          /\ Len(context.patches[rendered[j] + 1].path) > 6
          /\ \E k \in 1..Len(emitted) : emitted[k] = rendered[j]


(* the frames written behind the initial response: what each later flush added *)
Frame(k) == SubSeq(writer.out, flushes[k - 1] + 1, flushes[k])

(* from f[i] on: objects separated by one comma each, closed by the last bracket of f *)
RECURSIVE ObjectsFrom(_, _)
ObjectsFrom(f, i) ==
    IF i > Len(f) \/ f[i] # lBrace THEN FALSE
    ELSE With(SkipNested(f, i),
              LAMBDA j : IF j = 0 \/ j > Len(f) THEN FALSE
                         ELSE IF f[j] = rBrack THEN j = Len(f)
                         ELSE IF f[j] = comma THEN ObjectsFrom(f, j + 1)
                         ELSE FALSE)

WellFormedFrame(f) == Len(f) >= 2 /\ f[1] = lBrack /\ ObjectsFrom(f, 2)

(* C13: every frame written behind the initial response is a JSON array of one or more *)
(* patch objects separated by exactly one comma, whatever patches are emitted, dropped *)
(* or skipped and wherever the flushes fall.                                           *)
C13_FramesAreWellFormedArrays ==
    call = "streaming" => \A k \in 2..Len(flushes) : WellFormedFrame(Frame(k))

(* C16: when ctx.Done() has fired as the streaming driver reaches its select, the only *)
(* step it takes is to return nil: nothing more is written or flushed, and what buf    *)
(* holds of rendered patches stays unwritten.                                          *)
C16_DoneStopsTheDriver ==
    [][(call = "streaming" /\ stage = "loop" /\ done)
       => /\ stage' = "returned"
          /\ returned' = nilErr
          /\ writer' = writer
          /\ flushes' = flushes
          /\ context' = context]_vars

(* C16 happens: the driver returned on Done while buf held a rendered patch *)
C16_Witness ==
    /\ atDone.seen
    /\ stage = "returned"
    /\ Count(atDone.pending, literalOp) >= 1
    /\ writer.out = atDone.out
    /\ flushes = atDone.flushes


(* the Context handed to the call in progress, as it was when the call began *)
Stale(c) == c.maxPatch # -1 \/ c.currentPatch # -1
Rejected ==
    /\ stage = "returned"
    /\ returned = errInvalidContext
    /\ context = startContext.ctx
    /\ writer.writes = 0 /\ writer.out = <<>>
    /\ flushes = <<>>

(* C18 as stated: a Context used by a resolve call and not reset with Free is rejected *)
(* by the next ResolveGraphQLStreamingResponse before anything is resolved, written or *)
(* flushed, and is left unchanged.                                                     *)
C18_UsedContextRejected ==
    (call = "streaming" /\ stage # "idle" /\ startContext.used) => Rejected

(* C18 as the code has it: ResolveGraphQLStreamingResponse rejects a Context whose     *)
(* patch queue bound or cursor is not -1, before anything is resolved, written or      *)
(* flushed, and leaves it unchanged; a used Context with both at -1 is accepted.       *)
C18_StaleContextRejected ==
    (call = "streaming" /\ stage # "idle")
    => IF Stale(startContext.ctx) THEN Rejected ELSE returned # errInvalidContext

(* C18 happens: a Context with queued patches and an untouched cursor is rejected *)
C18_Witness ==
    /\ call = "streaming"
    /\ startContext.used
    /\ startContext.ctx.maxPatch >= 1
    /\ startContext.ctx.currentPatch = -1
    /\ Rejected

(* C19: ResolveGraphQLResponse called with a Context whose patch queue bound or cursor *)
(* is not -1 fails with InvalidContext without walking the plan or writing.            *)
C19_ResponseValidatesContext ==
    (call = "response" /\ stage = "returned" /\ Stale(startContext.ctx)) => Rejected

(* C20: after Free every buffer leased through the Context has been handed back to the *)
(* pool once, no lease is left, the path stack, the path prefix and the patch queue are *)
(* empty, cursor and bound are -1, and validateContext accepts the Context.             *)
C20_FreeResetsContext ==
    freed
    => /\ bytesBufferPool.puts = bytesBufferPool.gets
       /\ context.usedBuffers = 0
       /\ context.pathElements = <<>>
       /\ context.pathPrefix = <<>>
       /\ context.patches = <<>>
       /\ context.currentPatch = -1
       /\ context.maxPatch = -1
       /\ ~Stale(context)
       /\ validateContext(context) = nilErr

(* C20 happens: Free was given a Context with leases, a prefix, patches and a moved cursor *)
C20_Witness ==
    /\ freed
    /\ startContext.ctx.usedBuffers >= 3
    /\ startContext.ctx.pathPrefix # <<>>
    /\ Len(startContext.ctx.patches) >= 2
    /\ startContext.ctx.currentPatch >= 1
    /\ bytesBufferPool.puts >= 3
    /\ context.usedBuffers = 0


(***************************************************************************)
(* ResolveGraphQLSubscription (resolve.go 474-520)                         *)
(***************************************************************************)
MaxFrames == 2

(* GraphQLSubscription (1640-1643); the trigger is what its template's Render and its *)
(* source's Start return                                                              *)
Subscription(render, start, data) ==
    [Trigger |-> [Render |-> render, Start |-> start], Response |-> [Data |-> data]]

(* the root object with one integer field *)
CounterPlan(nullable) ==
    Object(<<>>, FALSE, <<Field("n", Integer(<<"n">>, nullable), Nil, At(1, 1))>>)

CounterFrame(value) == JData(JObject(<<JMember("n", value)>>))
EmptyFrame == JData(JObject(<<>>))
Frames == {CounterFrame(<<"1">>), CounterFrame(<<"2">>), EmptyFrame}

SubscriptionRequests ==
    { [subscription |-> Subscription(render, start, CounterPlan(nullable)),
       frames |-> frames, failing |-> failing] :
        render \in {nilErr, errRender},
        start \in {nilErr, ErrUnableToResolve, errStart},
        nullable \in BOOLEAN,
        frames \in SeqsUpTo(Frames, MaxFrames),
        failing \in {{}, {1}, {12}} }

SubscriptionInit ==
    /\ \E rq \in SubscriptionRequests :
          /\ response = rq.subscription
          /\ toSend = rq.frames
          /\ writer = NewWriter(rq.failing)
    /\ requestData = <<>>
    /\ context = NewContext
    /\ returned = "none"
    /\ completionOrder = <<>>
    /\ rangeOrder = <<>>
    /\ StreamIdle
    /\ next = <<>> /\ nextClosed = FALSE /\ resolverDone = FALSE /\ received = <<>>
    /\ atCancel = NoSnapshot /\ started = "none"
    /\ SingleFlightIdle /\ AsyncIdle /\ EnvelopeIdle /\ UnitsIdle

SubscriptionIdleVars == <<sfVars, asyncVars, envelopeVars, unitVars>>
StreamUnused == <<calls, streamBuf, startContext, used, freed, rendered, emitted, atDone>>

(* the document of line 493 with the text of ErrUnableToResolve for its message *)
unableToResolveOperationDocument ==
    <<lBrace, quote, literalErrors, quote, colon, lBrack, lBrace, quote, literalMessage, quote,
      colon, quote, ErrUnableToResolve, quote, rBrace, rBrack, rBrace>>

(* line 493 *)
unableToResolveDocument ==
    <<lBrace, quote, literalErrors, quote, colon, lBrack, lBrace, quote, literalMessage, quote,
      colon, quote, unableToResolveMsg, quote, rBrace, rBrack, rBrace>>

InLoop == call = "subscription" /\ stage \in {"select", "receiving"}

(* lines 476-502: the trigger's input is rendered and the source is started *)
SubscriptionCall ==
    /\ stage = "idle" /\ call = "none"
    /\ call' = "subscription"
    /\ IF response.Trigger.Render # nilErr
       THEN /\ returned' = response.Trigger.Render
            /\ stage' = "returned"
            /\ UNCHANGED <<writer, flushes, started>>
       ELSE /\ started' = response.Trigger.Start
            /\ IF response.Trigger.Start = nilErr
               THEN /\ stage' = "select"
                    /\ UNCHANGED <<writer, flushes, returned>>
               ELSE IF response.Trigger.Start = ErrUnableToResolve
               THEN \E w \in {WriterWrite(writer, unableToResolveDocument)} :
                       /\ writer' = w.w
                       /\ stage' = "returned"
                       /\ IF w.err # nilErr
                          THEN /\ returned' = w.err
                               /\ UNCHANGED flushes
                          ELSE /\ flushes' = Flush(flushes, w.w)
                               /\ returned' = nilErr
               ELSE /\ returned' = response.Trigger.Start
                    /\ stage' = "returned"
                    /\ UNCHANGED <<writer, flushes>>
    /\ UNCHANGED <<response, requestData, context, completionOrder, rangeOrder>>
    /\ UNCHANGED <<done, bytesBufferPool, StreamUnused>>
    /\ UNCHANGED <<next, nextClosed, toSend, resolverDone, received, atCancel>>
    /\ UNCHANGED SubscriptionIdleVars

(* lines 506-508: resolverDone is ready, so the select takes it *)
SeeResolverDone ==
    /\ call = "subscription" /\ stage = "select" /\ resolverDone
    /\ stage' = "returned"
    /\ returned' = nilErr
    /\ UNCHANGED <<response, requestData, context, writer, completionOrder, rangeOrder>>
    /\ UNCHANGED <<call, flushes, done, bytesBufferPool, StreamUnused>>
    /\ UNCHANGED subscriptionVars
    /\ UNCHANGED SubscriptionIdleVars

(* lines 509-510: nothing is ready, so the default branch blocks on next *)
AwaitFrame ==
    /\ call = "subscription" /\ stage = "select" /\ ~resolverDone
    /\ stage' = "receiving"
    /\ UNCHANGED <<response, requestData, context, writer, returned, completionOrder, rangeOrder>>
    /\ UNCHANGED <<call, flushes, done, bytesBufferPool, StreamUnused>>
    /\ UNCHANGED subscriptionVars
    /\ UNCHANGED SubscriptionIdleVars

(* a frame is received, resolved and written, but never flushed *)
ReceiveUnflushed ==
    /\ call = "subscription" /\ stage = "receiving" /\ next # <<>>
    /\ next' = Tail(next)
    /\ received' = Append(received, Head(next))
    /\ requestData' = Head(next)
    /\ \E r \in {ResolveGraphQLResponse(context, response.Response, Head(next), writer)} :
          /\ context' = r.ctx
          /\ writer' = r.w
          /\ bytesBufferPool' = Leased(bytesBufferPool, context, r.ctx)
          /\ IF r.err # nilErr
             THEN returned' = r.err /\ stage' = "returned"
             ELSE stage' = "select" /\ UNCHANGED returned
    /\ UNCHANGED <<response, completionOrder, rangeOrder>>
    /\ UNCHANGED <<call, flushes, done, StreamUnused>>
    /\ UNCHANGED <<nextClosed, toSend, resolverDone, atCancel, started>>
    /\ UNCHANGED SubscriptionIdleVars

(* lines 510-518: a frame is received, resolved into one document, and flushed *)
Receive ==
    /\ call = "subscription" /\ stage = "receiving" /\ next # <<>>
    /\ next' = Tail(next)
    /\ received' = Append(received, Head(next))
    /\ requestData' = Head(next)
    /\ \E r \in {ResolveGraphQLResponse(context, response.Response, Head(next), writer)} :
          /\ context' = r.ctx
          /\ writer' = r.w
          /\ bytesBufferPool' = Leased(bytesBufferPool, context, r.ctx)
          /\ IF r.err # nilErr
             THEN /\ returned' = r.err
                  /\ stage' = "returned"
                  /\ UNCHANGED flushes
             ELSE /\ flushes' = Flush(flushes, r.w)
                  /\ stage' = "select"
                  /\ UNCHANGED returned
    /\ UNCHANGED <<response, completionOrder, rangeOrder>>
    /\ UNCHANGED <<call, done, StreamUnused>>
    /\ UNCHANGED <<nextClosed, toSend, resolverDone, atCancel, started>>
    /\ UNCHANGED SubscriptionIdleVars

(* lines 510-513: next is closed and empty *)
ReceiveClosed ==
    /\ call = "subscription" /\ stage = "receiving" /\ next = <<>> /\ nextClosed
    /\ stage' = "returned"
    /\ returned' = nilErr
    /\ UNCHANGED <<response, requestData, context, writer, completionOrder, rangeOrder>>
    /\ UNCHANGED <<call, flushes, done, bytesBufferPool, StreamUnused>>
    /\ UNCHANGED subscriptionVars
    /\ UNCHANGED SubscriptionIdleVars

(* SubscriptionDataSource (281-283): the source sends on the unbuffered channel next; *)
(* the send completes when the loop receives                                          *)
SourceSend ==
    /\ InLoop /\ ~nextClosed /\ next = <<>> /\ toSend # <<>>
    /\ next' = <<Head(toSend)>>
    /\ toSend' = Tail(toSend)
    /\ UNCHANGED <<nextClosed, resolverDone, received, atCancel, started>>
    /\ UNCHANGED <<resolveVars, streamVars, SubscriptionIdleVars>>

(* the source closes next *)
SourceClose ==
    /\ InLoop /\ ~nextClosed /\ next = <<>>
    /\ nextClosed' = TRUE
    /\ UNCHANGED <<next, toSend, resolverDone, received, atCancel, started>>
    /\ UNCHANGED <<resolveVars, streamVars, SubscriptionIdleVars>>

(* the writer, the flushes and the channel at the first cancellation *)
Snapshot ==
    IF atCancel.seen THEN atCancel
    ELSE [out |-> writer.out, flushes |-> flushes, pending |-> next, seen |-> TRUE]

(* the resolver-wide context r.ctx (307-310) is cancelled *)
CancelResolver ==
    /\ InLoop /\ ~resolverDone
    /\ resolverDone' = TRUE
    /\ atCancel' = Snapshot
    /\ UNCHANGED <<next, nextClosed, toSend, received, started>>
    /\ UNCHANGED <<resolveVars, streamVars, SubscriptionIdleVars>>

(* the root request context ctx.Context is cancelled *)
CancelRoot ==
    /\ InLoop /\ ~done
    /\ done' = TRUE
    /\ atCancel' = Snapshot
    /\ UNCHANGED <<next, nextClosed, toSend, resolverDone, received, started>>
    /\ UNCHANGED <<resolveVars, SubscriptionIdleVars>>
    /\ UNCHANGED <<stage, call, flushes, bytesBufferPool, StreamUnused>>

SubscriptionNext ==
    \/ SubscriptionCall
    \/ SeeResolverDone
    \/ AwaitFrame
    \/ Receive
    \/ ReceiveClosed
    \/ SourceSend
    \/ SourceClose
    \/ CancelResolver
    \/ CancelRoot

SpecSubscription == SubscriptionInit /\ [][SubscriptionNext]_vars

(* the steps of the goroutine that runs ResolveGraphQLSubscription *)
SubscriberStep ==
    \/ SubscriptionCall
    \/ SeeResolverDone
    \/ AwaitFrame
    \/ Receive
    \/ ReceiveClosed

(* the scheduler runs the subscriber whenever it can take a step; nothing makes the source
   send or close, and nothing makes anyone cancel a context *)
SubscriptionFairness == WF_vars(SubscriberStep)

SpecSubscriptionLive == SubscriptionInit /\ [][SubscriptionNext]_vars /\ SubscriptionFairness


(***************************************************************************)
(* Claims about subscriptions                                              *)
(***************************************************************************)
(* what the k-th flush added to the output *)
Flushed(k) == SubSeq(writer.out, IF k = 1 THEN 1 ELSE flushes[k - 1] + 1, flushes[k])

(* one JSON object and nothing behind it *)
OneDocument(b) == Len(b) >= 2 /\ b[1] = lBrace /\ ValueEnd(b, 1) = Len(b) + 1

(* the data the counter plan renders from a frame *)
CounterData(frame) ==
    IF frame = EmptyFrame
    THEN IF response.Response.Data.Fields[1].Value.Nullable
         THEN JObject(<<JMember("n", <<null>>)>>) ELSE <<null>>
    ELSE JObject(<<JMember("n", CHOOSE v \in {<<"1">>, <<"2">>} : frame = CounterFrame(v))>>)

(* C14: with a writer that takes every write, each frame received from next makes one  *)
(* full response document, flushed once behind it, in the order of the frames; nothing *)
(* is written behind the last flush, so a return on the closed channel writes nothing, *)
(* and the call returns nil.                                                           *)
C14_OneFlushedDocumentPerFrame ==
    (call = "subscription" /\ started = nilErr /\ writer.failing = {})
    => /\ Len(flushes) = Len(received)
       /\ \A k \in 1..Len(received) :
             /\ OneDocument(Flushed(k))
             /\ Member(Flushed(k), literalData).value = CounterData(received[k])
             /\ received[k] # EmptyFrame => Flushed(k) = JData(CounterData(received[k]))
       /\ Len(flushes) > 0 => flushes[Len(flushes)] = Len(writer.out)
       /\ Len(flushes) = 0 => writer.out = <<>>
       /\ stage = "returned" => returned = nilErr

(* C14 happens: two frames were received and the source closed the channel *)
C14_Witness ==
    /\ call = "subscription" /\ stage = "returned" /\ returned = nilErr
    /\ writer.failing = {}
    /\ nextClosed /\ ~resolverDone /\ ~done
    /\ received = <<CounterFrame(<<"2">>), CounterFrame(<<"1">>)>>
    /\ Len(flushes) = 2
    /\ Flushed(2) = CounterFrame(<<"1">>)

(* C15: once ctx.Context or r.ctx is cancelled, no response document is written or *)
(* flushed any more, even if the source delivers another frame afterwards (here: no *)
(* frame was in the channel at the cancellation, so a later one was sent behind it). *)
C15_NoFrameAfterCancellation ==
    (call = "subscription" /\ atCancel.seen /\ atCancel.pending = <<>>)
    => writer.out = atCancel.out /\ flushes = atCancel.flushes

(* C17: when Start fails with ErrUnableToResolve, the frame loop is never entered and   *)
(* one document with the single error "unable to resolve" is written and flushed once,  *)
(* and nil returned (or the error of that one Write, with no flush); when Start fails   *)
(* with another error, that error is returned and nothing is written or flushed.        *)
C17_StartFailure ==
    (call = "subscription" /\ started \notin {"none", nilErr})
    => /\ stage = "returned"
       /\ received = <<>> /\ next = <<>>
       /\ IF started # ErrUnableToResolve
          THEN returned = started /\ writer.writes = 0 /\ writer.out = <<>> /\ flushes = <<>>
          ELSE IF 1 \in writer.failing
          THEN returned = errWrite /\ writer.writes = 1 /\ writer.out = <<>> /\ flushes = <<>>
          ELSE /\ returned = nilErr
               /\ writer.writes = 1
               /\ flushes = <<Len(writer.out)>>
               /\ OneDocument(writer.out)
               /\ ObjectKeys(writer.out) = <<literalErrors>>
               /\ Len(OutErrorList) = 1
               /\ ObjectKeys(OutErrorList[1]) = <<literalMessage>>
               /\ UnableToResolve(OutErrorList[1])

(* C17 happens: Start failed with ErrUnableToResolve and the error document went out *)
C17_Witness ==
    /\ call = "subscription" /\ stage = "returned"
    /\ started = ErrUnableToResolve
    /\ returned = nilErr
    /\ Len(flushes) = 1
    /\ Len(OutErrorList) = 1


(***************************************************************************)
(* Claims about the recycling of single-flight entries                     *)
(***************************************************************************)
WaiterStates == {"waitLoad", "waiterData", "waiterErrors", "waiterReturn"}

(* C26: while a waiter is registered on an entry and has not returned, the entry is     *)
(* neither back in the pool nor registered by a later leader, its waitFree counts the   *)
(* waiter, and once the leader's Load is over it holds what the leader extracted, in    *)
(* every interleaving of the leader's completion, the map removal and later callers.    *)
C26_EntryKeptUntilWaitersAreDone ==
    \A w \in Callers :
        pc[w] \in WaiterStates
        => LET e == entryOf[w]
               l == leaderOf[w]
           IN /\ e \notin inflightFetchPool
              /\ registeredBy[e] = l
              /\ entryOf[l] = e
              /\ inflight[e].waitFree >= 1
              /\ pc[w] # "waitLoad"
                    => /\ inflight[e].bufPair
                            = extractResponse(loaded[l].raw, EmptyBufPair,
                                              fetch[l].ProcessResponseConfig)
                       /\ inflight[e].err = loaded[l].err

(* C26 happens: a waiter still copies from the entry of a leader that has returned and *)
(* handed it to the freeing goroutine, while a later caller leads the same key anew    *)
C26_Witness ==
    \E w, l \in Callers :
        /\ pc[w] \in {"waiterData", "waiterErrors"}
        /\ pc[leaderOf[w]] = "done"
        /\ entryOf[w] \in freeing
        /\ l # leaderOf[w]
        /\ pc[l] \in LeaderStates
        /\ FetchID(fetch[l]) = FetchID(fetch[w])
        /\ entryOf[l] # entryOf[w]


(***************************************************************************)
(* Claims about objects skipped by their type name                         *)
(***************************************************************************)
(* what an object gated by T renders from a typed item: nothing when the type differs *)
RECURSIVE KeptItems(_)
KeptItems(items) ==
    IF items = <<>> THEN <<>>
    ELSE (IF Head(items) = Typed("T", <<"1">>)
          THEN <<JObject(<<JMember("x", <<"1">>), JMember("y", <<null>>)>>)>> ELSE <<>>)
         \o KeptItems(Tail(items))

(* the parent array leaves out the elements skipped and keeps the others *)
SkippedElementsElided ==
    \A n \in BOOLEAN, items \in SeqsUpTo(TypedItems, MaxItems) \ {<<>>} :
        (Done /\ response.Data = GatedArrayPlan(n, FALSE) /\ requestData = GatedArrayData(items))
        => /\ returned = nilErr
           /\ writer.out = JData(JObject(<<JMember("l", JArray(KeptItems(items)))>>))

(* the parent object leaves out the field skipped and keeps the others *)
SkippedFieldElided ==
    \A n \in BOOLEAN, o \in TypedItems :
        (Done /\ response.Data = GatedFieldPlan(n) /\ requestData = GatedFieldData(o))
        => /\ returned = nilErr
           /\ writer.out = JData(JObject(<<JMember("a", <<"1">>)>>
                                         \o [k \in 1..Len(KeptItems(<<o>>)) |->
                                                JMember("o", KeptItems(<<o>>)[k])]
                                         \o <<JMember("b", <<"2">>)>>))

(* C23: an object all of whose fields are skipped by OnTypeName is elided by its parent: *)
(* a parent array omits that element and keeps the others, separated by one comma each,  *)
(* and a parent object omits that field and keeps its other fields.                      *)
C23_TypeSkippedObjectIsElided == SkippedElementsElided /\ SkippedFieldElided

(***************************************************************************)
(* Variables (resolve.go 1493-1638).  A variable is its kind, its Path and *)
(* for a ContextVariable the flag RenderAsGraphQLValue.                    *)
(***************************************************************************)
VariableKindContext == "Context"
VariableKindObject == "Object"
VariableKindHeader == "Header"
variablePrefixSuffix == "$$"

ContextVariable(p, asGraphQL) ==
    [kind |-> VariableKindContext, Path |-> p, RenderAsGraphQLValue |-> asGraphQL]
ObjectVariable(p) == [kind |-> VariableKindObject, Path |-> p, RenderAsGraphQLValue |-> FALSE]
HeaderVariable(p) == [kind |-> VariableKindHeader, Path |-> p, RenderAsGraphQLValue |-> FALSE]

(* Equals comparing the paths alone *)
EqualsPathOnly(v, another) ==
    /\ Len(v.Path) = Len(another.Path)
    /\ \A i \in 1..Len(v.Path) : v.Path[i] = another.Path[i]

(* ContextVariable.Equals, ObjectVariable.Equals, HeaderVariable.Equals: the three *)
(* methods have the same body; a nil argument is not among the variables here      *)
Equals(v, another) ==
    IF another.kind # v.kind THEN FALSE
    ELSE IF Len(v.Path) # Len(another.Path) THEN FALSE
    ELSE \A i \in 1..Len(v.Path) : v.Path[i] = another.Path[i]

(* Variables.AddVariable: the list afterwards, the name and exists; indexes count from 0 *)
AddVariable(v, variable, quoteValue) ==
    With({i \in 1..Len(v) : Equals(v[i], variable)}, LAMBDA found :
      With(IF found = {} THEN Append(v, variable) ELSE v, LAMBDA list :
        With(IF found = {} THEN Len(list) - 1
             ELSE (CHOOSE i \in found : \A k \in found : i <= k) - 1, LAMBDA index :
          With(<<variablePrefixSuffix, ToString(index), variablePrefixSuffix>>, LAMBDA name :
            [variables |-> list,
             name |-> IF quoteValue THEN <<quote>> \o name \o <<quote>> ELSE name,
             exists |-> found # {}]))))

(***************************************************************************)
(* Calls of single functions.  The arguments are chosen at the start; each *)
(* action makes the call of the function its arguments name.               *)
(***************************************************************************)
MaxAdds == 3

SomeError == WriteErr(EmptyBufPair, <<"m">>, Nil, Nil, Nil).Errors

MergeCalls ==
    {[fn |-> "MergeBufPairs", from |-> [Data |-> fd, Errors |-> fe],
      to |-> [Data |-> td, Errors |-> te], prefixDataWithComma |-> flag] :
        fd \in {<<>>, <<"1">>}, fe \in {<<>>, SomeError},
        td \in {<<>>, <<lBrack>>, <<lBrack, "0">>}, te \in {<<>>, SomeError},
        flag \in BOOLEAN}

(* items are the elements the data holds at the Path of the array *)
ArrayCall(p, nullable, async, data, items) ==
    [fn |-> "resolveArray", array |-> Array(p, nullable, async, Integer(<<>>, FALSE)),
     data |-> data, items |-> items]

ArrayCalls ==
    {ArrayCall(p, nullable, async, data, <<>>) :
        p \in {<<>>, <<"items">>}, nullable \in BOOLEAN, async \in BOOLEAN,
        data \in {emptyArray,
                  JObject(<<>>),
                  JObject(<<JMember("items", emptyArray)>>),
                  JObject(<<JMember("items", <<null>>)>>),
                  JObject(<<JMember("other", JArray(<<<<"1">>>>))>>)}}
    \cup {ArrayCall(<<"items">>, nullable, FALSE,
                    JObject(<<JMember("items", JArray(items))>>), items) :
            nullable \in BOOLEAN, items \in {<<<<"1">>>>, <<<<"1">>, <<"2">>>>}}

AddableVariables ==
    {ContextVariable(<<"a">>, FALSE), ContextVariable(<<"a">>, TRUE), ObjectVariable(<<"a">>),
     ObjectVariable(<<"a", "b">>), HeaderVariable(<<"a">>)}

AddCalls ==
    {[fn |-> "AddVariable", adds |-> a] :
        a \in SeqsUpTo({[variable |-> v, quoteValue |-> q] :
                            v \in AddableVariables, q \in BOOLEAN}, MaxAdds)}

(* a patch to resolve on data, with what it is to come to: "data" and the value  *)
(* rendered, "errors" when the rendering leaves errors, "failed" when it fails   *)
PatchCase(value, fetched, data, outcome, yields) ==
    [Value |-> value, Fetch |-> fetched, data |-> data, outcome |-> outcome, yields |-> yields]

DataWithErrors ==
    <<lBrace, quote, literalErrors, quote, colon, lBrack>>
    \o JObject(<<JMember(literalMessage, JString("m"))>>) \o <<rBrack, comma>>
    \o JMember(literalData, JObject(<<JMember("a", <<"1">>)>>)) \o <<rBrace>>

Loaded(raw, err) == [raw |-> raw, err |-> err]
Static == <<StaticSegment(<<"q">>)>>
Unrenderable == <<VariableSegment(VariableSourceRequestHeader, <<>>, FALSE)>>

PatchCases ==
    { PatchCase(GuardedItem, NoFetchPlan, GoodItem, "data", GoodItem),
      PatchCase(GuardedItem, NoFetchPlan, BadItem, "errors", <<>>),
      PatchCase(Integer(<<>>, FALSE), NoFetchPlan, <<"7">>, "data", <<"7">>),
      PatchCase(Integer(<<>>, TRUE), NoFetchPlan, <<null>>, "data", <<null>>),
      PatchCase(Integer(<<>>, FALSE), NoFetchPlan, <<null>>, "failed", <<>>),
      PatchCase(Integer(<<"a">>, FALSE),
                SingleFetch(0, Static, Loaded(JObject(<<JMember("a", <<"1">>)>>), nilErr), rawConfig),
                <<"7">>, "data", <<"1">>),
      PatchCase(Integer(<<"a">>, FALSE),
                SingleFetch(0, Static, Loaded(DataWithErrors, nilErr), graphqlConfig),
                <<"7">>, "errors", <<>>),
      PatchCase(Integer(<<"a">>, FALSE),
                SingleFetch(0, Unrenderable, Loaded(JObject(<<JMember("a", <<"1">>)>>), nilErr), rawConfig),
                <<"7">>, "failed", <<>>),
      PatchCase(Integer(<<"a">>, FALSE),
                SingleFetch(0, Static, Loaded(JObject(<<JMember("a", <<"1">>)>>), errLoad), rawConfig),
                <<"7">>, "failed", <<>>),
      PatchCase(Integer(<<>>, FALSE),
                SingleFetch(1, Static, Loaded(JObject(<<JMember("a", <<"1">>)>>), nilErr), rawConfig),
                <<"7">>, "data", <<"7">>) }

PatchCalls ==
    {[fn |-> "ResolveGraphQLResponsePatch",
      patch |-> [Value |-> c.Value, Fetch |-> c.Fetch, Operation |-> op],
      data |-> c.data, patchPath |-> p, extraPath |-> x, w |-> w,
      outcome |-> c.outcome, yields |-> c.yields] :
        c \in PatchCases, op \in {<<"add">>, <<"replace">>},
        p \in {Nil, <<"/", literalData, "/", "items", "/", "1">>},
        x \in {Nil, <<"/", "o">>},
        w \in {<<>>, <<lBrack>>}}

(* sequences of calls made on one Context *)
MaxQueueCalls == 4

QueueCalls ==
    {[fn |-> "patchQueue", ops |-> o] :
        o \in SeqsUpTo({"addPatch", "popNextPatch", "Free"}, MaxQueueCalls) \ {<<>>}}

Calls == MergeCalls \cup ArrayCalls \cup AddCalls \cup PatchCalls \cup QueueCalls

CallsInit ==
    /\ args \in Calls
    /\ result = NoCall
    /\ planVariables = <<>>
    /\ patchContext = NewContext
    /\ SingleFlightIdle /\ ResolveIdle /\ WriterIdle /\ AsyncIdle /\ EnvelopeIdle
    /\ StreamIdle /\ SubscriptionIdle /\ FetchIdle

CallsIdleVars ==
    <<sfVars, resolveVars, asyncVars, envelopeVars, streamVars, subscriptionVars, fetchVars>>

CallMergeBufPairs ==
    /\ args.fn = "MergeBufPairs" /\ result = NoCall
    /\ \E m \in {MergeBufPairs(args.from, args.to, args.prefixDataWithComma)} :
          result' = [fn |-> "MergeBufPairs", from |-> m.from, to |-> m.to]
    /\ UNCHANGED <<args, planVariables, patchContext, CallsIdleVars>>

CallResolveArray ==
    /\ args.fn = "resolveArray" /\ result = NoCall
    /\ \E r \in {resolveArray(NewContext, args.array, args.data, EmptyBufPair)} :
          result' = [fn |-> "resolveArray", buf |-> r.buf, err |-> r.err]
    /\ UNCHANGED <<args, planVariables, patchContext, CallsIdleVars>>

CallResolveGraphQLResponsePatch ==
    /\ args.fn = "ResolveGraphQLResponsePatch" /\ result = NoCall
    /\ \E r \in {ResolveGraphQLResponsePatch(NewContext, args.patch, args.data, args.patchPath,
                                             args.extraPath, args.w)} :
          result' = [fn |-> "ResolveGraphQLResponsePatch", w |-> r.w, err |-> r.err,
                     ctx |-> r.ctx]
    /\ UNCHANGED <<args, planVariables, patchContext, CallsIdleVars>>

(* the next call of the sequence; result keeps the list as the call found it *)
CallAddVariable ==
    /\ args.fn = "AddVariable" /\ args.adds # <<>>
    /\ \E a \in {Head(args.adds)} :
       \E r \in {AddVariable(planVariables, a.variable, a.quoteValue)} :
          /\ planVariables' = r.variables
          /\ result' = [fn |-> "AddVariable", variable |-> a.variable,
                        quoteValue |-> a.quoteValue, before |-> planVariables,
                        name |-> r.name, exists |-> r.exists]
    /\ args' = [args EXCEPT !.adds = Tail(@)]
    /\ UNCHANGED <<patchContext, CallsIdleVars>>

(* the calls made on patchContext since it was fresh or reset: the patches added and *)
(* the patches popNextPatch returned, in order                                       *)
QueueHistory ==
    IF result.fn = "patchQueue" /\ result.op # "Free"
    THEN [added |-> result.added, returned |-> result.returned]
    ELSE [added |-> <<>>, returned |-> <<>>]

(* the next call of the sequence on patchContext *)
CallPatchQueue ==
    /\ args.fn = "patchQueue" /\ args.ops # <<>>
    /\ \E op \in {Head(args.ops)}, h \in {QueueHistory} :
          \/ /\ op = "addPatch"
             /\ \E n \in {Len(h.added) + 1} :
                   /\ patchContext' = addPatch(patchContext, n, <<"/", literalData>>, Nil, <<"1">>)
                   /\ result' = [fn |-> "patchQueue", op |-> op, ok |-> TRUE,
                                 patch |-> NoPatch,
                                 added |-> Append(h.added, patchContext'.patches[
                                                               Len(patchContext'.patches)]),
                                 returned |-> h.returned, waiting |-> 0]
          \/ /\ op = "popNextPatch"
             /\ \E p \in {popNextPatch(patchContext)} :
                   /\ patchContext' = p.ctx
                   /\ result' = [fn |-> "patchQueue", op |-> op, ok |-> p.ok,
                                 patch |-> p.patch, added |-> h.added,
                                 returned |-> IF p.ok THEN Append(h.returned, p.patch)
                                              ELSE h.returned,
                                 waiting |-> Len(h.added) - Len(h.returned)]
          \/ /\ op = "Free"
             /\ patchContext' = Free(patchContext).ctx
             /\ result' = [fn |-> "patchQueue", op |-> op, ok |-> TRUE, patch |-> NoPatch,
                           added |-> <<>>, returned |-> <<>>, waiting |-> 0]
    /\ args' = [args EXCEPT !.ops = Tail(@)]
    /\ UNCHANGED <<planVariables, CallsIdleVars>>

CallsNext ==
    \/ CallMergeBufPairs
    \/ CallResolveArray
    \/ CallAddVariable
    \/ CallResolveGraphQLResponsePatch
    \/ CallPatchQueue

SpecCalls == CallsInit /\ [][CallsNext]_vars

(***************************************************************************)
(* Claims about MergeBufPairs                                              *)
(***************************************************************************)
DataMergedWith(lead) ==
    result.to.Data =
        IF args.from.Data = <<>> THEN args.to.Data
        ELSE args.to.Data \o (IF lead THEN <<comma>> ELSE <<>>) \o args.from.Data

ErrorsMerged ==
    result.to.Errors =
        IF args.from.Errors = <<>> THEN args.to.Errors
        ELSE args.to.Errors \o (IF args.to.Errors # <<>> THEN <<comma>> ELSE <<>>)
                 \o args.from.Errors

(* C24 as stated: MergeBufPairs appends the data of from to the data of to with a    *)
(* leading comma iff to holds data already and the flag is set, appends the errors   *)
(* of from with a comma iff to holds errors already, and leaves to as it was for a   *)
(* part of from that is empty.                                                       *)
C24_CommaWhenDataAlready ==
    result.fn = "MergeBufPairs"
    => DataMergedWith(args.to.Data # <<>> /\ args.prefixDataWithComma) /\ ErrorsMerged

(* C24, amended: the leading comma of the data is written iff the flag is set,       *)
(* whether or not to holds data already; the errors get a comma iff to holds errors  *)
(* already, and to is left as it was for a part of from that is empty.               *)
C24_CommaWhenFlagSet ==
    result.fn = "MergeBufPairs"
    => DataMergedWith(args.prefixDataWithComma) /\ ErrorsMerged

C24_Witness ==
    /\ result.fn = "MergeBufPairs"
    /\ args.prefixDataWithComma /\ args.to.Data = <<>> /\ args.from.Data = <<"1">>
    /\ result.to.Data = <<comma, "1">>
    /\ args.to.Errors # <<>> /\ args.from.Errors # <<>>

(***************************************************************************)
(* Claims about resolveArray without elements                              *)
(***************************************************************************)
(* C29: resolveArray writes [] and succeeds when the data is exactly []; otherwise,  *)
(* when no element is collected at the Path of the array, a non-nullable array       *)
(* writes [] and fails with errNonNullableFieldValueIsNull and a nullable array      *)
(* writes null and succeeds.                                                         *)
C29_ArrayWithoutElements ==
    (result.fn = "resolveArray" /\ (args.data = <<lBrack, rBrack>> \/ args.items = <<>>))
    => IF args.data = <<lBrack, rBrack>>
       THEN result.buf.Data = <<lBrack, rBrack>> /\ result.err = nilErr
       ELSE IF args.array.Nullable
       THEN result.buf.Data = <<null>> /\ result.err = nilErr
       ELSE /\ result.buf.Data = <<lBrack, rBrack>>
            /\ result.err = errNonNullableFieldValueIsNull

C29_Witness ==
    /\ result.fn = "resolveArray"
    /\ args.array.Path = <<"items">> /\ ~args.array.Nullable
    /\ args.data = JObject(<<JMember("items", <<lBrack, rBrack>>)>>)
    /\ result.buf.Data = <<lBrack, rBrack>>
    /\ result.err = errNonNullableFieldValueIsNull

(***************************************************************************)
(* Claims about Variables.AddVariable                                      *)
(***************************************************************************)
SameVariable(a, b) == a.kind = b.kind /\ a.Path = b.Path

Placeholder(i, quoted) ==
    IF quoted THEN <<quote, "$$", ToString(i), "$$", quote>> ELSE <<"$$", ToString(i), "$$">>

(* C25: two variables are equal iff they have the same kind and the same path; the   *)
(* list built by AddVariable from the empty list holds no two equal variables; each  *)
(* call returns the placeholder $$i$$ (inside quotes when quoteValue is set) of the  *)
(* index i of the entry equal to its argument, and exists iff that entry was there   *)
(* before the call; the entries that were there keep their indexes.                  *)
C25_VariablesAreListedOnce ==
    /\ \A a, b \in AddableVariables : Equals(a, b) <=> SameVariable(a, b)
    /\ \A i, j \in 1..Len(planVariables) :
          i # j => ~SameVariable(planVariables[i], planVariables[j])
    /\ (result.fn = "AddVariable")
       => /\ Len(result.before) <= Len(planVariables)
          /\ SubSeq(planVariables, 1, Len(result.before)) = result.before
          /\ result.exists = (\E i \in 1..Len(result.before) :
                                 SameVariable(result.before[i], result.variable))
          /\ \E i \in 1..Len(planVariables) :
                /\ SameVariable(planVariables[i], result.variable)
                /\ result.name = Placeholder(i - 1, result.quoteValue)

C25_Witness ==
    /\ result.fn = "AddVariable" /\ result.exists
    /\ result.variable = ContextVariable(<<"a">>, TRUE)
    /\ planVariables = <<ObjectVariable(<<"a">>), ContextVariable(<<"a">>, FALSE)>>
    /\ result.name = <<quote, "$$", "1", "$$", quote>>

(***************************************************************************)
(* Claims about the singleFlight flag of the after-fetch hooks             *)
(***************************************************************************)
(* the flags OnData and OnError are to carry for caller c *)
FlagOnData(c) ==
    IF ~EnableSingleFlightLoader \/ fetch[c].DisallowSingleFlight THEN FALSE
    ELSE leaderOf[c] # NoCaller
FlagOnError(c) ==
    IF ~EnableSingleFlightLoader \/ fetch[c].DisallowSingleFlight THEN FALSE ELSE TRUE

(* C27: a caller that returned has called OnData once iff the result it holds has    *)
(* data and after that OnError once iff the result has errors; without single-flight *)
(* or with the fetch opted out both carry false, the caller that called Load for a   *)
(* shared entry passes false to OnData and true to OnError, a waiter passes true to  *)
(* both.                                                                             *)
C27_HookFlags ==
    \A c \in Callers :
        pc[c] = "done" =>
            hookCalls[c] =
                (IF buf[c].Data # <<>>
                 THEN <<[hook |-> "OnData", singleFlight |-> FlagOnData(c)]>> ELSE <<>>)
                \o (IF buf[c].Errors # <<>>
                    THEN <<[hook |-> "OnError", singleFlight |-> FlagOnError(c)]>> ELSE <<>>)

(* a leader, its waiter and a caller that opted out, each with data and errors *)
C27_Witness ==
    \E l, w, d \in Callers :
        /\ pc[l] = "done" /\ pc[w] = "done" /\ pc[d] = "done"
        /\ leaderOf[w] = l /\ fetch[d].DisallowSingleFlight /\ EnableSingleFlightLoader
        /\ hookCalls[l] = <<[hook |-> "OnData", singleFlight |-> FALSE],
                            [hook |-> "OnError", singleFlight |-> TRUE]>>
        /\ hookCalls[w] = <<[hook |-> "OnData", singleFlight |-> TRUE],
                            [hook |-> "OnError", singleFlight |-> TRUE]>>
        /\ hookCalls[d] = <<[hook |-> "OnData", singleFlight |-> FALSE],
                            [hook |-> "OnError", singleFlight |-> FALSE]>>

(***************************************************************************)
(* resolveFetch (resolve.go 1052-1095) with the children of a              *)
(* ParallelFetch as goroutines.  The resolver runs without the             *)
(* single-flight loader here, so resolveSingleFetch takes lines 1097-1119. *)
(***************************************************************************)
FetchContext(before, after) ==
    [Variables |-> JObject(<<JMember("name", JString("n"))>>),
     Header |-> [n \in {"Authorization"} |-> <<"t1", "t2">>],
     beforeFetchHook |-> before, afterFetchHook |-> after, usedBuffers |-> 0]

FetchedData == JObject(<<JMember("id", <<"1">>)>>)

(* the templates in use, each with the error its rendering is to end with *)
TemplateCases ==
    { [Segments |-> <<StaticSegment(<<"q">>)>>, fails |-> nilErr],
      [Segments |-> <<StaticSegment(<<"q">>),
                      VariableSegment(VariableSourceObject, <<"id">>, FALSE)>>,
       fails |-> nilErr],
      [Segments |-> <<VariableSegment(VariableSourceContext, <<"name">>, TRUE),
                      VariableSegment(VariableSourceRequestHeader, <<"authorization">>, FALSE)>>,
       fails |-> nilErr],
      [Segments |-> <<StaticSegment(<<"q">>),
                      VariableSegment(VariableSourceObject, <<"missing">>, FALSE)>>,
       fails |-> errKeyPathNotFound],
      [Segments |-> <<VariableSegment(VariableSourceContext, <<"missing">>, FALSE)>>,
       fails |-> errKeyPathNotFound],
      [Segments |-> <<VariableSegment(VariableSourceRequestHeader,
                                      <<"authorization", "x-id">>, FALSE)>>,
       fails |-> errHeaderPathInvalid],
      [Segments |-> <<VariableSegment(VariableSourceRequestHeader, <<>>, FALSE)>>,
       fails |-> errHeaderPathInvalid],
      [Segments |-> <<StaticSegment(<<"q">>), VariableSegment("none", <<"id">>, FALSE)>>,
       fails |-> errCannotResolveVariable] }

(* holds is what the answer is to leave in the buffer of the fetch *)
Answer(raw, err, config, holds) == [raw |-> raw, err |-> err, config |-> config, holds |-> holds]
Source(a) == [raw |-> a.raw, err |-> a.err]

GraphQLErrors == <<quote, literalErrors, quote, colon, lBrack>>
                 \o JObject(<<JMember(literalMessage, JString("m"))>>) \o <<rBrack>>

(* what the data source of the first child and of the second child may answer *)
FirstAnswers ==
    { Answer(JObject(<<JMember("a", <<"1">>)>>), nilErr, rawConfig,
             [Data |-> JObject(<<JMember("a", <<"1">>)>>), Errors |-> <<>>]),
      Answer(<<lBrace>> \o GraphQLErrors \o <<comma>>
             \o JMember(literalData, JObject(<<JMember("a", <<"1">>)>>)) \o <<rBrace>>,
             nilErr, graphqlConfig,
             [Data |-> JObject(<<JMember("a", <<"1">>)>>),
              Errors |-> JObject(<<JMember(literalMessage, JString("m"))>>)]) }
SecondAnswers ==
    { Answer(JObject(<<JMember("b", <<"2">>)>>), nilErr, rawConfig,
             [Data |-> JObject(<<JMember("b", <<"2">>)>>), Errors |-> <<>>]),
      Answer(<<lBrace>> \o GraphQLErrors \o <<rBrace>>, errLoad, graphqlConfig,
             [Data |-> <<>>, Errors |-> JObject(<<JMember(literalMessage, JString("m"))>>)]) }

FetchPlans ==
    { [fetch |-> SingleFetch(0, t.Segments, Source(a), a.config), fails |-> <<t.fails>>,
       holds |-> <<a.holds>>]
      : t \in TemplateCases, a \in FirstAnswers \cup SecondAnswers }
    \cup
    { [fetch |-> ParallelFetch(<<SingleFetch(0, t.Segments, Source(a), a.config),
                                 SingleFetch(1, u.Segments, Source(b), b.config)>>),
       fails |-> <<t.fails, u.fails>>, holds |-> <<a.holds, b.holds>>]
      : t \in TemplateCases, u \in TemplateCases, a \in FirstAnswers, b \in SecondAnswers }

FetchInit ==
    /\ \E p \in FetchPlans : fetchPlan = p
    /\ fetchData = FetchedData
    /\ \E before \in BOOLEAN, after \in BOOLEAN : fetchCtx = FetchContext(before, after)
    /\ resultSet = [id \in {} |-> EmptyBufPair]
    /\ preparedInputs = <<>>
    /\ fetchWg = 0
    /\ childPc = [i \in 1..Len(Fetches(fetchPlan.fetch)) |-> "none"]
    /\ appending = [i \in 1..Len(Fetches(fetchPlan.fetch)) |-> FALSE]
    /\ lease = [i \in 1..Len(Fetches(fetchPlan.fetch)) |-> 0]
    /\ childErr = [i \in 1..Len(Fetches(fetchPlan.fetch)) |-> "none"]
    /\ fetchStage = "idle"
    /\ fetchErr = "none"
    /\ loads = <<>>
    /\ hookLog = <<>>
    /\ bufPairPool = {}
    /\ SingleFlightIdle /\ ResolveIdle /\ WriterIdle /\ AsyncIdle /\ EnvelopeIdle
    /\ StreamIdle /\ SubscriptionIdle /\ CallsIdle

FetchIdleVars ==
    <<sfVars, resolveVars, asyncVars, envelopeVars, streamVars, subscriptionVars, callVars>>

Children == 1..Len(Fetches(fetchPlan.fetch))
ChildFetch(i) == Fetches(fetchPlan.fetch)[i]

(* lines 1054-1059 and 1062-1073: resolveFetch up to the first goroutine *)
Prepare ==
    /\ fetchStage = "idle"
    /\ \E p \in {PrepareFrom(Fetches(fetchPlan.fetch), 1, fetchCtx, fetchData, resultSet, <<>>)} :
          /\ resultSet' = p.buffers
          /\ preparedInputs' = p.inputs
          /\ IF p.err # nilErr
             THEN /\ fetchStage' = "returned" /\ fetchErr' = p.err
                  /\ bufPairPool' = DeferredFree(fetchPlan.fetch, bufPairPool \cup p.got, p.inputs)
             ELSE /\ fetchStage' = "prepared" /\ fetchErr' = "none"
                  /\ bufPairPool' = bufPairPool \cup p.got
    /\ UNCHANGED <<fetchPlan, fetchData, fetchCtx, fetchWg, childPc, appending, lease, childErr,
                   loads, hookLog>>
    /\ UNCHANGED FetchIdleVars

(* where a child goes on from position at: the hooks that are not set are passed by *)
Onward(i, at, buffers) ==
    LET stops == <<"before", "load", "onData", "onError", "exit">>
        taken(p) == CASE p = "before" -> fetchCtx.beforeFetchHook
                      [] p = "onData" -> fetchCtx.afterFetchHook
                                         /\ HasData(buffers[ChildFetch(i).BufferId])
                      [] p = "onError" -> fetchCtx.afterFetchHook
                                          /\ HasErrors(buffers[ChildFetch(i).BufferId])
                      [] OTHER -> TRUE
        n == CHOOSE k \in 1..Len(stops) : stops[k] = at
    IN stops[CHOOSE k \in (n + 1)..Len(stops) :
                taken(stops[k]) /\ \A j \in (n + 1)..(k - 1) : ~taken(stops[j])]

First(i) == IF fetchCtx.beforeFetchHook THEN "before" ELSE "load"

(* line 1061: the SingleFetch is resolved by the caller itself *)
CallSingleFetch ==
    /\ fetchStage = "prepared" /\ fetchPlan.fetch.kind = "SingleFetch"
    /\ childPc' = [childPc EXCEPT ![1] = First(1)]
    /\ fetchStage' = "waiting"
    /\ UNCHANGED <<fetchPlan, fetchData, fetchCtx, resultSet, preparedInputs, fetchWg, appending, lease,
                   childErr, fetchErr, loads, hookLog>>
    /\ UNCHANGED bufPairPool
    /\ UNCHANGED FetchIdleVars

(* lines 1075-1084: wg.Add(1) and the goroutine of the next child *)
StartChild(i) ==
    /\ fetchStage = "prepared" /\ fetchPlan.fetch.kind = "ParallelFetch"
    /\ childPc[i] = "none" /\ \A j \in 1..(i - 1) : childPc[j] # "none"
    /\ fetchWg' = fetchWg + 1
    /\ childPc' = [childPc EXCEPT ![i] = First(i)]
    /\ fetchStage' = IF i = Len(childPc) THEN "waiting" ELSE "prepared"
    /\ UNCHANGED <<fetchPlan, fetchData, fetchCtx, resultSet, preparedInputs, appending, lease,
                   childErr, fetchErr, loads, hookLog>>
    /\ UNCHANGED bufPairPool
    /\ UNCHANGED FetchIdleVars

HookStops == {"before", "onData", "onError"}

(* hookCtx, lines 1185-1189, in Context.path, line 235: append reads c.usedBuffers *)
HookRead(i) ==
    /\ childPc[i] \in HookStops /\ ~appending[i]
    /\ lease' = [lease EXCEPT ![i] = fetchCtx.usedBuffers]
    /\ appending' = [appending EXCEPT ![i] = TRUE]
    /\ UNCHANGED <<fetchPlan, fetchData, fetchCtx, resultSet, preparedInputs, fetchWg, childPc,
                   childErr, fetchStage, fetchErr, loads, hookLog>>
    /\ UNCHANGED bufPairPool
    /\ UNCHANGED FetchIdleVars

(* line 235: append writes c.usedBuffers; then the hook is called (1102, 1112, 1115) *)
HookCall(i) ==
    /\ childPc[i] \in HookStops /\ appending[i]
    /\ fetchCtx' = [fetchCtx EXCEPT !.usedBuffers = lease[i] + 1]
    /\ appending' = [appending EXCEPT ![i] = FALSE]
    /\ hookLog' = Append(hookLog,
                         [child |-> i,
                          hook |-> CASE childPc[i] = "before" -> "OnBeforeFetch"
                                     [] childPc[i] = "onData" -> "OnData"
                                     [] OTHER -> "OnError",
                          singleFlight |-> FALSE])
    /\ childPc' = [childPc EXCEPT ![i] = Onward(i, @, resultSet)]
    /\ UNCHANGED <<fetchPlan, fetchData, resultSet, preparedInputs, fetchWg, lease, childErr,
                   fetchStage, fetchErr, loads>>
    /\ UNCHANGED bufPairPool
    /\ UNCHANGED FetchIdleVars

(* lines 1107-1108: Load on the child's prepared input, extractResponse into its buffer *)
Load(i) ==
    /\ childPc[i] = "load"
    /\ loads' = Append(loads, [child |-> i, input |-> preparedInputs[i]])
    /\ resultSet' = [resultSet EXCEPT ![ChildFetch(i).BufferId] =
                  extractResponse(ChildFetch(i).DataSource.raw, @,
                                  ChildFetch(i).ProcessResponseConfig)]
    /\ childErr' = [childErr EXCEPT ![i] = ChildFetch(i).DataSource.err]
    /\ childPc' = [childPc EXCEPT ![i] = Onward(i, "load", resultSet')]
    /\ UNCHANGED <<fetchPlan, fetchData, fetchCtx, preparedInputs, fetchWg, appending, lease,
                   fetchStage, fetchErr, hookLog>>
    /\ UNCHANGED bufPairPool
    /\ UNCHANGED FetchIdleVars

(* line 1118 and, in a goroutine, wg.Done() of line 1081 *)
ChildReturn(i) ==
    /\ childPc[i] = "exit"
    /\ childPc' = [childPc EXCEPT ![i] = "done"]
    /\ fetchWg' = IF fetchPlan.fetch.kind = "ParallelFetch" THEN fetchWg - 1 ELSE fetchWg
    /\ UNCHANGED <<fetchPlan, fetchData, fetchCtx, resultSet, preparedInputs, appending, lease,
                   childErr, fetchStage, fetchErr, loads, hookLog>>
    /\ UNCHANGED bufPairPool
    /\ UNCHANGED FetchIdleVars

(* wg.Wait() returning at once *)
FetchesNotAwaited == TRUE

(* line 1085: wg.Wait() *)
FetchesAwaited == fetchWg = 0

(* lines 1085-1087: the join; the errors of the children are dropped *)
JoinChildren ==
    /\ fetchStage = "waiting" /\ fetchPlan.fetch.kind = "ParallelFetch"
    /\ FetchesAwaited
    /\ fetchStage' = "returned"
    /\ fetchErr' = nilErr
    /\ bufPairPool' = DeferredFree(fetchPlan.fetch, bufPairPool, preparedInputs)
    /\ UNCHANGED <<fetchPlan, fetchData, fetchCtx, resultSet, preparedInputs, fetchWg, childPc,
                   appending, lease, childErr, loads, hookLog>>
    /\ UNCHANGED FetchIdleVars

(* lines 1061 and 1087: the error of resolveSingleFetch is the error of resolveFetch *)
ReturnSingleFetch ==
    /\ fetchStage = "waiting" /\ fetchPlan.fetch.kind = "SingleFetch"
    /\ childPc[1] = "done"
    /\ fetchStage' = "returned"
    /\ fetchErr' = childErr[1]
    /\ bufPairPool' = DeferredFree(fetchPlan.fetch, bufPairPool, preparedInputs)
    /\ UNCHANGED <<fetchPlan, fetchData, fetchCtx, resultSet, preparedInputs, fetchWg, childPc,
                   appending, lease, childErr, loads, hookLog>>
    /\ UNCHANGED FetchIdleVars

(* the deferred freeResultSet(set) of the caller that got the set: resolveObject, *)
(* line 954, and ResolveGraphQLResponsePatch, line 604                            *)
FreeResultSet ==
    /\ fetchStage = "returned"
    /\ fetchStage' = "freed"
    /\ bufPairPool' = freeResultSet(bufPairPool, resultSet)
    /\ resultSet' = [id \in {} |-> EmptyBufPair]
    /\ UNCHANGED <<fetchPlan, fetchData, fetchCtx, preparedInputs, fetchWg, childPc, appending, lease,
                   childErr, fetchErr, loads, hookLog>>
    /\ UNCHANGED FetchIdleVars

FetchNext ==
    \/ Prepare
    \/ CallSingleFetch
    \/ \E i \in Children : StartChild(i)
    \/ \E i \in Children : HookRead(i)
    \/ \E i \in Children : HookCall(i)
    \/ \E i \in Children : Load(i)
    \/ \E i \in Children : ChildReturn(i)
    \/ JoinChildren
    \/ ReturnSingleFetch
    \/ FreeResultSet

SpecFetch == FetchInit /\ [][FetchNext]_vars

(***************************************************************************)
(* Claims about resolveFetch                                               *)
(***************************************************************************)
AllRender == \A i \in Children : fetchPlan.fails[i] = nilErr
FailingChildren == {i \in Children : fetchPlan.fails[i] # nilErr}
LoadsOf(i) == {k \in 1..Len(loads) : loads[k].child = i}

(* C21: when resolveFetch returns from a ParallelFetch, every child has run to its   *)
(* end, Load was called once for each child, and the buffer at the BufferId of each  *)
(* child holds the result of that child, in whatever order the children ran.         *)
C21_ParallelFetchJoins ==
    (fetchPlan.fetch.kind = "ParallelFetch" /\ fetchStage = "returned" /\ AllRender)
    => \A i \in Children :
          /\ childPc[i] = "done"
          /\ Cardinality(LoadsOf(i)) = 1
          /\ resultSet[ChildFetch(i).BufferId] = fetchPlan.holds[i]

(* the second child called Load before the first; the buffers hold {"a":1} and {"b":2} *)
C21_Witness ==
    /\ fetchPlan.fetch.kind = "ParallelFetch" /\ fetchStage = "returned"
    /\ Len(loads) = 2 /\ loads[1].child = 2 /\ loads[2].child = 1
    /\ resultSet[0].Data = JObject(<<JMember("a", <<"1">>)>>)
    /\ resultSet[1].Data = JObject(<<JMember("b", <<"2">>)>>)

(* what the next step of child i reads and writes: the place, then whether it writes *)
Accesses(i) ==
    IF childPc[i] \in HookStops
    THEN {<<"ctx.usedBuffers", 0, appending[i]>>}
    ELSE IF childPc[i] = "load"
    THEN {<<"set.buffers", ChildFetch(i).BufferId, TRUE>>, <<"preparedInput", i, FALSE>>}
    ELSE {}

Conflict(a, b) ==
    \E x \in Accesses(a), y \in Accesses(b) : x[1] = y[1] /\ x[2] = y[2] /\ (x[3] \/ y[3])

(* C22: no two children of a ParallelFetch are about to access the same place with   *)
(* one of them writing it, and every buffer leased through the shared Context is     *)
(* recorded in it, also when the fetch hooks are set.                                *)
C22_ChildrenShareNoWrites ==
    /\ \A a, b \in Children : a # b => ~Conflict(a, b)
    /\ fetchStage = "returned" => fetchCtx.usedBuffers = Len(hookLog)

(* without hooks the children touch their own buffer and their own input only *)
ChildrenApartWithoutHooks ==
    (~fetchCtx.beforeFetchHook /\ ~fetchCtx.afterFetchHook)
    => \A a, b \in Children : a # b => ~Conflict(a, b)

(* C30: when the template of the fetch or of a child of the ParallelFetch does not   *)
(* render, resolveFetch returns the error of the first such template, and neither    *)
(* Load nor a hook is called for any fetch, nor is any child started.                *)
C30_RenderFailureIsFatal ==
    (fetchStage # "idle" /\ FailingChildren # {})
    => /\ fetchStage \in {"returned", "freed"}
       /\ \E i \in FailingChildren :
             /\ \A j \in FailingChildren : i <= j
             /\ fetchErr = fetchPlan.fails[i]
       /\ loads = <<>> /\ hookLog = <<>>
       /\ \A i \in Children : childPc[i] = "none"

(* the second child's header path has two elements; the hooks are set *)
C30_Witness ==
    /\ fetchStage = "returned" /\ fetchPlan.fetch.kind = "ParallelFetch"
    /\ fetchPlan.fails = <<nilErr, errHeaderPathInvalid>>
    /\ fetchErr = errHeaderPathInvalid
    /\ fetchCtx.beforeFetchHook /\ fetchCtx.afterFetchHook
    /\ loads = <<>> /\ hookLog = <<>>

(***************************************************************************)
(* Claims about ResolveGraphQLResponsePatch                                *)
(***************************************************************************)
PatchFrame(operation, pathBytes, value) ==
    JObject(<<JMember(literalOp, <<quote>> \o operation \o <<quote>>),
              JMember(literalPath, <<quote>> \o pathBytes \o <<quote>>),
              JMember(literalValue, value)>>)

QueueBoundKept == patchContext.maxPatch = Len(patchContext.patches) - 1

(* the patches returned are the patches added first, in the order they were added *)
ReturnedInOrder ==
    /\ Len(result.returned) <= Len(result.added)
    /\ result.returned = SubSeq(result.added, 1, Len(result.returned))

(* the patches returned are among the patches added, in the order they were added *)
ReturnedAmongAdded ==
    \E f \in [1..Len(result.returned) -> 1..Len(result.added)] :
        /\ \A i, j \in DOMAIN f : i < j => f[i] < f[j]
        /\ \A i \in DOMAIN f : result.returned[i] = result.added[f[i]]

(* C31: on a fresh or reset Context the patch queue is a FIFO queue under any        *)
(* sequence of addPatch and popNextPatch: maxPatch is len(patches) - 1, the patches  *)
(* come back in the order they were added, each once, and popNextPatch reports       *)
(* ok = false only when every patch added has been returned.                         *)
C31_PatchQueueIsFifo ==
    result.fn = "patchQueue"
    => /\ QueueBoundKept
       /\ ReturnedInOrder
       /\ (result.op = "popNextPatch" /\ ~result.ok => result.waiting = 0)

(* what holds of the queue whatever the calls: the bound, and the order of what is returned *)
PatchQueueKeepsOrder ==
    result.fn = "patchQueue" => QueueBoundKept /\ ReturnedAmongAdded

(***************************************************************************)
(* Objects with a Fetch: ResolveGraphQLResponse on plans whose objects     *)
(* load their data (resolve.go 950-979)                                    *)
(***************************************************************************)
BufferedField(name, value, bufferID, position) ==
    [Field(name, value, Nil, position) EXCEPT !.HasBuffer = TRUE, !.BufferID = bufferID]

FetchingObject(p, nullable, f, fields) == [Object(p, nullable, fields) EXCEPT !.Fetch = f]

(* the templates of the fetches: the last one does not render *)
ObjectTemplates ==
    { [Segments |-> <<StaticSegment(<<"q">>)>>, fails |-> nilErr],
      [Segments |-> <<StaticSegment(<<"q">>),
                      VariableSegment(VariableSourceObject, <<"id">>, FALSE)>>,
       fails |-> nilErr],
      [Segments |-> <<StaticSegment(<<"q">>),
                      VariableSegment(VariableSourceObject, <<"missing">>, FALSE)>>,
       fails |-> errKeyPathNotFound] }

(* what the data source of an object may answer *)
Fetched(x) == JObject(<<JMember("x", x)>>)

ObjectAnswers ==
    { Answer(Fetched(<<"1">>), nilErr, rawConfig, [Data |-> Fetched(<<"1">>), Errors |-> <<>>]),
      Answer(JObject(<<>>), nilErr, rawConfig, [Data |-> JObject(<<>>), Errors |-> <<>>]),
      Answer(<<>>, errLoad, rawConfig, EmptyBufPair),
      Answer(Fetched(<<"1">>), errLoad, rawConfig,
             [Data |-> Fetched(<<"1">>), Errors |-> <<>>]),
      Answer(<<lBrace>> \o GraphQLErrors \o <<comma>>
             \o JMember(literalData, Fetched(<<"1">>)) \o <<rBrace>>,
             nilErr, graphqlConfig,
             [Data |-> Fetched(<<"1">>),
              Errors |-> JObject(<<JMember(literalMessage, JString("m"))>>)]) }

(* the object at o, which loads its one field *)
LoadedObject(nullable, t, a, nx) ==
    FetchingObject(<<"o">>, nullable, SingleFetch(0, t.Segments, Source(a), a.config),
                   <<BufferedField("x", Integer(<<"x">>, nx), 0, At(2, 2))>>)

(* the plan holds an array whose elements are resolved in goroutines (line 672) *)
RECURSIVE Asynchronous(_)
Asynchronous(node) ==
    CASE node.kind = "Object" ->
            \E i \in DOMAIN node.Fields : Asynchronous(node.Fields[i].Value)
      [] node.kind = "Array" -> node.ResolveAsynchronous \/ Asynchronous(node.Item)
      [] OTHER -> FALSE

(* the orders in which the goroutines of the plan may finish; a plan without *)
(* goroutines never looks at the order                                       *)
FinishOrders(plan) ==
    IF Asynchronous(plan) THEN CompletionOrders ELSE {[i \in 1..MaxItems |-> i]}

(* a request: the plan, the data, the two orders the runtime chooses, and what the  *)
(* request is made of                                                               *)
FetchingRequest(plan, data, finish, visit, shape) ==
    [plan |-> plan, data |-> data, completionOrder |-> finish, rangeOrder |-> visit,
     shape |-> shape]

(* the root object with a leaf and the loading object *)
LoadedFieldRequests ==
    { FetchingRequest(
          Object(<<>>, nr, <<Field("a", Integer(<<"a">>, TRUE), Nil, At(1, 1)),
                             Field("o", LoadedObject(no, t, a, nx), Nil, At(1, 2))>>),
          JData(JObjectOf(<<<<"a", <<"1">>>>, <<"o", o>>>>)), <<1, 2>>, <<0>>,
          [kind |-> "field", answers |-> <<a>>, templates |-> <<t>>, items |-> <<o>>])
      : nr \in BOOLEAN, no \in BOOLEAN, nx \in BOOLEAN, t \in ObjectTemplates,
        a \in ObjectAnswers, o \in {Absent, JObject(<<JMember("id", <<"1">>)>>)} }

(* the root object with an array of elements that hold the loading object or nothing *)
LoadedItems == {JObject(<<>>), JObject(<<JMember("o", JObject(<<JMember("id", <<"1">>)>>))>>)}

LoadedArrayRequests ==
    { FetchingRequest(
          Object(<<>>, nr, <<Field("l", Array(<<"l">>, nl, async, LoadedObject(no, t, a, FALSE)),
                                   Nil, At(1, 1))>>),
          JData(JObject(<<JMember("l", JArray(items))>>)), finish, <<0>>,
          [kind |-> "array", answers |-> <<a>>, templates |-> <<t>>, items |-> items])
      : nr \in BOOLEAN, nl \in BOOLEAN, async \in BOOLEAN, no \in BOOLEAN,
        t \in {u \in ObjectTemplates : u.fails = nilErr},
        a \in {b \in ObjectAnswers : b.config = rawConfig /\ b.raw # JObject(<<>>)},
        items \in SeqsUpTo(LoadedItems, MaxItems) \ {<<>>},
        finish \in CompletionOrders }

(* the root object loading its two fields with one ParallelFetch *)
ParallelAnswers(name, value) ==
    LET held == JObject(<<JMember(name, value)>>)
    IN { Answer(held, nilErr, rawConfig, [Data |-> held, Errors |-> <<>>]),
         Answer(held, errLoad, rawConfig, [Data |-> held, Errors |-> <<>>]),
         Answer(<<>>, errLoad, rawConfig, EmptyBufPair),
         Answer(<<lBrace>> \o GraphQLErrors \o <<comma>> \o JMember(literalData, held)
                \o <<rBrace>>,
                nilErr, graphqlConfig,
                [Data |-> held, Errors |-> JObject(<<JMember(literalMessage, JString("m"))>>)]),
         Answer(<<lBrace>> \o GraphQLErrors \o <<rBrace>>, errLoad, graphqlConfig,
                [Data |-> <<>>, Errors |-> JObject(<<JMember(literalMessage, JString("m"))>>)]) }

ParallelRequests ==
    { FetchingRequest(
          FetchingObject(<<>>, nr,
                         ParallelFetch(<<SingleFetch(0, t.Segments, Source(a), a.config),
                                         SingleFetch(1, u.Segments, Source(b), b.config)>>),
                         <<BufferedField("a", Integer(<<"a">>, TRUE), 0, At(1, 1)),
                           BufferedField("b", Integer(<<"b">>, TRUE), 1, At(1, 2))>>),
          JData(JObject(<<JMember("id", <<"1">>)>>)), <<1, 2>>, visit,
          [kind |-> "parallel", answers |-> <<a, b>>, templates |-> <<t, u>>, items |-> <<>>])
      : nr \in BOOLEAN, t \in ObjectTemplates, u \in ObjectTemplates,
        a \in ParallelAnswers("a", <<"1">>), b \in ParallelAnswers("b", <<"2">>),
        visit \in {<<0, 1>>, <<1, 0>>} }

(* the requests without a Fetch *)
PlainRequests ==
    { FetchingRequest(rq[1], rq[2], finish, <<>>,
                      [kind |-> "plain", answers |-> <<>>, templates |-> <<>>, items |-> <<>>])
      : rq \in Requests, finish \in CompletionOrders }

FetchingRequests ==
    LoadedFieldRequests \cup ParallelRequests
    \cup {rq \in LoadedArrayRequests \cup PlainRequests :
             rq.completionOrder \in FinishOrders(rq.plan)}

(* the request of the behaviour: the plan and the data are those of one of the requests *)
Request ==
    CHOOSE rq \in FetchingRequests :
        /\ rq.plan = response.Data /\ rq.data = requestData
        /\ rq.completionOrder = completionOrder /\ rq.rangeOrder = rangeOrder

ObjectFetchInit ==
    /\ \E rq \in FetchingRequests :
          /\ response = [Data |-> rq.plan]
          /\ requestData = rq.data
          /\ completionOrder = rq.completionOrder
          /\ rangeOrder = rq.rangeOrder
    /\ context = NewContext
    /\ writer = NewWriter({})
    /\ returned = "none"
    /\ SingleFlightIdle /\ AsyncIdle /\ EnvelopeIdle /\ DriverIdle

SpecObjectFetch == ObjectFetchInit /\ [][ResolveNext]_vars

(***************************************************************************)
(* Claims about objects with a Fetch                                       *)
(***************************************************************************)
(* C32: resolveNode leaves the path stack of the Context as it found it, for every   *)
(* node kind and on every return path: when ResolveGraphQLResponse has returned,     *)
(* with or without an error, ctx.pathElements is what it was before the call, every  *)
(* field name and index that was pushed having been popped.                          *)
C32_PathStackRestored ==
    Done => context.pathElements = NewContext.pathElements

(* C32 happens: an element of an array, two levels below the root, loaded its object *)
(* and the Load failed                                                               *)
C32_Witness ==
    /\ Done /\ returned = errLoad
    /\ Request.shape.kind = "array" /\ ~response.Data.Fields[1].Value.ResolveAsynchronous
    /\ Len(Request.shape.items) = 2
    /\ context.pathElements = <<>>

(***************************************************************************)
(* Claims about patches queued below an asynchronous array                 *)
(***************************************************************************)
DeferredArray == response.InitialResponse.Data.Fields[1].Value

(* the initial response holds an asynchronous array whose items queue a patch each *)
AsyncDeferred ==
    /\ DeferredArray.ResolveAsynchronous /\ ~DeferredArray.Stream.Enabled
    /\ DeferredArray.Item \in DeferredItems

(* C33: a patch queued while an element of an asynchronous array is resolved stays in *)
(* the clone of the Context the element's goroutine works on: the patch queue, the    *)
(* cursor, the path stack and the leases of the caller's Context are what they were   *)
(* before the call, and the streaming driver never renders such a patch.              *)
C33_TaskPatchesStayInTheClone ==
    (AsyncDeferred /\ call = "streaming" /\ stage \in {"loop", "returned"})
    => /\ context.patches = startContext.ctx.patches
       /\ context.maxPatch = startContext.ctx.maxPatch
       /\ context.pathElements = startContext.ctx.pathElements
       /\ context.usedBuffers = startContext.ctx.usedBuffers
       /\ (stage = "loop" => context.currentPatch = startContext.ctx.currentPatch)
       /\ rendered = <<>>

(* C33 happens: two deferred items of an asynchronous array were resolved to null in  *)
(* the initial response, the driver returned, and no patch was rendered or written    *)
C33_Witness ==
    /\ AsyncDeferred /\ call = "streaming" /\ stage = "returned" /\ returned = nilErr
    /\ startContext.ctx = NewContext
    /\ Len(ArrayEach(SourceData, <<"items">>)) = 2
    /\ DeferredArray.Item = Null(Deferred(0))
    /\ writer.out = JData(JObject(<<JMember("items", JArray(<<<<null>>, <<null>>>>))>>))
    /\ rendered = <<>> /\ Len(flushes) = 1

(* the same items below a synchronous array are queued on the caller's Context *)
SyncDeferredQueued ==
    /\ ~DeferredArray.ResolveAsynchronous /\ DeferredArray.Item \in DeferredItems
    /\ call = "streaming" /\ stage = "returned" /\ returned = nilErr
    /\ Len(rendered) = 2

(* the elements of the request's array that hold the loading object *)
Holding(items) == {i \in 1..Len(items) : Get(items[i], <<"o">>).value # <<>>}

(* the element's goroutine, or the loop, reaches element i: in the loop every element *)
(* before it rendered null                                                            *)
Reaches(i) ==
    \/ response.Data.Fields[1].Value.ResolveAsynchronous
    \/ \A j \in 1..(i - 1) : j \notin Holding(Request.shape.items)
                             /\ response.Data.Fields[1].Value.Item.Nullable

(* DataSource.Load of the SingleFetch of an object was called and returned an error *)
LoadFailed ==
    /\ Request.shape.kind \in {"field", "array"}
    /\ Request.shape.templates[1].fails = nilErr
    /\ Request.shape.answers[1].err # nilErr
    /\ IF Request.shape.kind = "field" THEN Request.shape.items[1] # Absent
       ELSE \E i \in Holding(Request.shape.items) : Reaches(i)

(* the error of the Load came back and nothing was written *)
LoadErrorReturned ==
    /\ returned = Request.shape.answers[1].err
    /\ writer.out = <<>> /\ writer.writes = 0

(* C34: when the Load of the SingleFetch of an object returns an error, every        *)
(* ancestor, nullable or not, object or array, passes the error on unchanged, and    *)
(* ResolveGraphQLResponse returns it without writing a byte.                         *)
C34_LoadErrorReachesTheCaller ==
    (Done /\ LoadFailed) => LoadErrorReturned

(* what holds of the requests in which no other element of an asynchronous array     *)
(* fails: the error of the Load comes back and nothing is written                    *)
LoadErrorReturnedUnlessOutrun ==
    (Done /\ LoadFailed
     /\ (Request.shape.kind = "array" /\ response.Data.Fields[1].Value.ResolveAsynchronous
         => \A i \in 1..Len(Request.shape.items) :
                i \in Holding(Request.shape.items)
                \/ response.Data.Fields[1].Value.Item.Nullable))
    => LoadErrorReturned

(* what the field name of the root object is to render from the slot of child i *)
FromSlot(i, name) ==
    LET got == Get(Request.shape.answers[i].holds.Data, <<name>>)
    IN IF ~got.err /\ got.type = "Number" THEN got.value ELSE <<null>>

(* the errors the slots of the children hold, in the order range visits the slots *)
SlotErrors ==
    LET held(k) == Request.shape.answers[rangeOrder[k] + 1].holds.Errors
    IN JoinAll(SelectSeq([k \in 1..2 |-> held(k)], LAMBDA e : e # <<>>), <<comma>>)

(* C35: the error a child's Load returns inside a ParallelFetch is discarded: when   *)
(* every input template rendered, resolveFetch returns nil however many children     *)
(* failed to load, and the owning object renders its fields from what the slot of    *)
(* each child holds.                                                                 *)
C35_ParallelLoadErrorsAreDropped ==
    (Done /\ Request.shape.kind = "parallel"
     /\ \A i \in 1..2 : Request.shape.templates[i].fails = nilErr)
    => /\ returned = nilErr
       /\ OutData.value = JObject(<<JMember("a", FromSlot(1, "a")),
                                    JMember("b", FromSlot(2, "b"))>>)
       /\ IF SlotErrors = <<>> THEN OutErrors.err
          ELSE OutErrors.value = <<lBrack>> \o SlotErrors \o <<rBrack>>

(* C35 happens: the Load of both children failed, the first having written its data, *)
(* and the response holds the first field and null for the second                    *)
C35_Witness ==
    /\ Done /\ Request.shape.kind = "parallel" /\ returned = nilErr
    /\ \A i \in 1..2 : /\ Request.shape.templates[i].fails = nilErr
                       /\ Request.shape.answers[i].err = errLoad
    /\ writer.out = JData(JObject(<<JMember("a", <<"1">>), JMember("b", <<null>>)>>))

(***************************************************************************)
(* Claims about a patch whose rendering fails                              *)
(***************************************************************************)
(* what the rendering of the patch at queue position k returns *)
PatchError(k) ==
    With(context.patches[k + 1], LAMBDA queued :
        ResolveGraphQLResponsePatch(NewContext, response.Patches[queued.index + 1], queued.data,
                                    queued.path, queued.extraPath, <<>>).err)

(* the driver handed a patch to ResolveGraphQLResponsePatch and got an error *)
PatchFailed ==
    /\ call = "streaming" /\ stage \in {"loop", "returned"}
    /\ \E j \in 1..Len(rendered) : PatchError(rendered[j]) # nilErr

(* C36: when the rendering of a queued patch returns an error, a non-nullable null   *)
(* of the patch's value or an error of its fetch, ResolveGraphQLStreamingResponse    *)
(* returns that error at once: no patch behind it is rendered, and the patches       *)
(* rendered into buf since the last flush are never written.                         *)
C36_PatchErrorEndsTheStream ==
    PatchFailed
    => /\ stage = "returned"
       /\ returned = PatchError(rendered[Len(rendered)])
       /\ \A j \in 1..(Len(rendered) - 1) : PatchError(rendered[j]) = nilErr
       /\ Len(writer.out) = flushes[Len(flushes)]
       /\ Count(writer.out, literalOp) + Count(streamBuf, literalOp) = Len(emitted)

(* C36 happens: the fetch of the second patch failed while the first patch was in    *)
(* buf, unwritten, and a third patch was queued behind it                            *)
C36_Witness ==
    /\ PatchFailed /\ stage = "returned"
    /\ returned = errKeyPathNotFound
    /\ Len(context.patches) = 3
    /\ Len(rendered) = 2 /\ Len(emitted) = 1
    /\ Count(streamBuf, literalOp) = 1 /\ Count(writer.out, literalOp) = 0
    /\ Len(flushes) = 1

(***************************************************************************)
(* Claims about a write that fails while the envelope is emitted           *)
(***************************************************************************)
FirstFailure == CHOOSE k \in writer.failing : \A j \in writer.failing : k <= j

WriteFailed == Done /\ writer.failing # {} /\ writer.writes >= FirstFailure

(* C37: when a Write call fails while writeGraphqlResponse emits the envelope, the   *)
(* failed call is the last Write call on the writer and the function returns its     *)
(* error.                                                                            *)
C37_FailedWriteEndsTheEnvelope ==
    WriteFailed
    => /\ writer.writes = FirstFailure
       /\ returned = errWrite

(***************************************************************************)
(* Claims about the progress of single-flight                              *)
(***************************************************************************)
(* no caller stands between its call of resolveSingleFetch and its return *)
NoFetchInProgress == \A c \in Callers : pc[c] \in {"idle", "done"}

(* the Load of the leader the waiter w registered on has returned *)
LeaderLoadReturned(w) == pc[leaderOf[w]] \in {"leaderDone", "leaderDelete", "done"}

WaitingOnReturnedLoad(w) ==
    /\ pc[w] \in {"waitLoad", "waiterData", "waiterErrors", "waiterReturn"}
    /\ LeaderLoadReturned(w)

(* C38: once the leader's Load has returned, every waiter registered on its entry      *)
(* returns, the key leaves the in-flight map and the entry comes back to the pool; and *)
(* in every state in which no fetch is in progress the in-flight map is empty.         *)
C38_SingleFlightMakesProgress ==
    /\ [](NoFetchInProgress => DOMAIN inflightFetches = {})
    /\ \A w \in Callers : WaitingOnReturnedLoad(w) ~> (pc[w] = "done")
    /\ \A l \in Callers :
          (pc[l] = "leaderDone") ~> (FetchID(fetch[l]) \notin DOMAIN inflightFetches)
    /\ \A l \in Callers : (pc[l] = "leaderDone") ~> (entryOf[l] \in inflightFetchPool)

(* C38 happens: two waiters of one leader returned after its Load, the map is empty and *)
(* every entry is in the pool.                                                          *)
C38_Witness ==
    /\ AllDone
    /\ \E w, v \in Waiters : w # v /\ leaderOf[w] = leaderOf[v]
    /\ DOMAIN inflightFetches = {}
    /\ inflightFetchPool = Entries
    /\ freeing = {}

(***************************************************************************)
(* Claims about the return of a cancelled subscription                     *)
(***************************************************************************)
(* C39: once the resolver-wide context r.ctx is cancelled, ResolveGraphQLSubscription *)
(* returns, whether or not the source sends another frame or closes next.             *)
C39_CancelledSubscriptionReturns == resolverDone ~> (stage = "returned")

(***************************************************************************)
(* Claims about the BufPairs of resolveFetch                               *)
(***************************************************************************)
(* C40: when the call that got the result set has returned, every BufPair got from   *)
(* bufPairPool for a prepared input or for a buffer of the set is back in the pool,  *)
(* whether resolveFetch returned nil, the error of Load or the error of a template.  *)
C40_BufPairsReturned == fetchStage = "freed" => bufPairPool = {}

(* when every template renders, nothing stays out of the pool *)
BufPairsReturnedWhenRendered == (fetchStage = "freed" /\ AllRender) => bufPairPool = {}

(* a SingleFetch gives back its prepared input also when its template fails *)
BufPairsReturnedBySingleFetch ==
    (fetchStage = "freed" /\ fetchPlan.fetch.kind = "SingleFetch") => bufPairPool = {}

(* a ParallelFetch whose template does not render keeps the prepared input of that child *)
BufPairKeptByParallelFetch ==
    (fetchStage = "freed" /\ fetchPlan.fetch.kind = "ParallelFetch" /\ ~AllRender)
    => \E i \in FailingChildren :
          /\ \A j \in FailingChildren : i <= j
          /\ bufPairPool = {PreparedInputPair(i)}

====
